---- MODULE Spec2Model ----
(***************************************************************************)
(* Model of the real-time correlation core of the AI detection agent:      *)
(* DetectionAgent (intake queue, consumer loop, pipeline, feedback,        *)
(* cleanup, shutdown), BehavioralAnalytics (baseline store),               *)
(* GraphCorrelationEngine (relationship graph), KnowledgeBaseService       *)
(* (enrichment) and LLMService (rule oracle).                              *)
(*                                                                         *)
(* Time is counted in hours.  Scores are exact: strengths and confidences  *)
(* are hundredths, derived scores are fractions <<numerator, denominator>>.*)
(* One action is one stretch of code between two awaits of real I/O.       *)
(***************************************************************************)
EXTENDS Integers, Sequences, FiniteSets, TLC

(***************************************************************************)
(* Bounds of the model.                                                    *)
(***************************************************************************)
MaxEvents == 2
MaxAdvance == 1
MaxFeedback == 3
MantissaBits == 7
MinExponent == 8

(***************************************************************************)
(* Program constants.                                                      *)
(***************************************************************************)
InitialConfidence == 10
ConfidenceStep == 1
ConfidenceCap == 100
FeedbackDecrement == 5
ConfidenceFloor == 10
QueueRetentionHours == 168
BaselineRetentionHours == 720
correlationWindow == 6
minCorrelationStrength == 50
CoOccurStrength == 50
CoOccurConfidence == 80
MinChainLength == 3
GraphRetentionHours == 720
RecentHours == 168
StaleHours == 720
RecentFactor == 10
StaleFactor == 8
OldFactor == 5
anomalyThreshold == <<7, 10>>

(***************************************************************************)
(* The universe of inputs.                                                 *)
(***************************************************************************)
Entities == {"A", "B", "C"}
Events == 1..MaxEvents
Rules == <<"r1", "r2">>
RuleIds == {Rules[i] : i \in 1..Len(Rules)}
\* The hour at which the agent is created, the age of the telemetry that is
\* backfilled through POST /api/v1/events (older than the queue retention)
\* and the stretch by which the clock moves (longer than the baseline
\* retention).
StartHour == 6 * QueueRetentionHours
BackdateHours == QueueRetentionHours + 32
AdvanceHours == BaselineRetentionHours + 30
NoBaseline == [absent |-> TRUE]
\* No event: what a loop that is not running a pipeline holds.
NoEvent == MaxEvents - MaxEvents

\* SecurityEvent.normalizedData.entities of the event with id e, in the
\* iteration order of Object.entries: the events of a feed touch overlapping
\* entities.
EventEntities(e) ==
  IF e % 3 = 1 THEN <<"A", "B">>
  ELSE IF e % 3 = 2 THEN <<"B", "C">>
  ELSE <<"A", "B", "C">>

\* SecurityEvent.timestamp of event e when it is submitted at hour t: every
\* third event of the feed is backfilled telemetry, older than 7 days.
EventTimestamp(e, t) == IF e % 3 = 2 THEN t - BackdateHours ELSE t

\* SecurityEvent.eventType, as a sequence of characters.
EventType(e) == IF e % 2 = 0 THEN <<"t", "1">> ELSE <<"x">>

\* DetectionRule.metadata.mitreTechniques[0] (lower-cased); r2 and r4 have
\* none.
RuleTechnique(r) ==
  IF r = "r1" THEN <<"t", "1">>
  ELSE IF r = "r3" THEN <<"x">>
  ELSE <<>>

(***************************************************************************)
(* The EDR connector (BaseDataSource, EDRConnector).  Its state is a       *)
(* record: isConnected, errorCount, pollingInterval (the timer of          *)
(* startListening is set), pending (calls of pollEvents awaiting the       *)
(* answer to GET /events) and running (the process is alive).              *)
(***************************************************************************)
maxRetries == 3
\* The timeout of the HTTP client and the period of the polling timer, in
\* milliseconds: a timer tick does not wait for the poll before it, so up to
\* MaxInFlight polls await their answer at a time.
HttpTimeoutMs == 30000
PollingIntervalMs == 5000
MaxInFlight == HttpTimeoutMs \div PollingIntervalMs
\* errorCount++ has no upper limit in the code; the runs stop counting here.
ErrorCountCap == 2 * maxRetries

\* The connector as its constructor leaves it.
NewConnector ==
  [isConnected |-> FALSE, errorCount |-> 0, pollingInterval |-> FALSE,
   pending |-> 0, running |-> TRUE]

\* BaseDataSource.handleError: errorCount++; at maxRetries or more the
\* connector is marked disconnected and the error is thrown again, otherwise
\* the call waits retryDelay * 2^(errorCount - 1) and returns.
handleError(c) ==
  LET n == c.errorCount + 1
  IN [c |-> [c EXCEPT !.errorCount = n,
                      !.isConnected = IF n >= maxRetries THEN FALSE ELSE @],
      threw |-> n >= maxRetries]

\* BaseDataSource.resetErrorCount.
resetErrorCount(c) == [c EXCEPT !.errorCount = 0]

VARIABLES
  now,              \* Date.now(), in hours
  advances,         \* how many times the clock was moved forward
  svc,              \* isInitialized of the four services
  driver,           \* GraphCorrelationEngine.driver is not null
  graphClosing,     \* GraphCorrelationEngine.shutdown awaits driver.close()
  shutdownCalled,   \* DetectionAgent.shutdown was called
  processingQueue,  \* DetectionAgent.processingQueue (event ids)
  isProcessing,     \* DetectionAgent.isProcessing
  nextId,           \* id of the next event to be submitted
  evTs,             \* timestamp of each submitted event
  evLate,           \* events submitted after shutdown was called
  call,             \* state of each processEvent call
  stage,            \* position of the processQueue loop started by a call
  cur,              \* event the loop is running the pipeline of
  loc,              \* locals of the pipeline run of a loop
  baselines,        \* BehavioralAnalytics.baselines
  persisted,        \* baselines as last stored by DatabaseService
  nodes,            \* Entity nodes of the graph
  rel,              \* RELATES_TO edges of the graph
  cooc,             \* CO_OCCURRED_IN edges of the graph
  runs,             \* number of pipeline runs started per event
  outcome,          \* how the pipeline run of an event ended
  hist,             \* what happened to an event on its way (history)
  evMalformed,      \* events submitted without a field SecurityEvent requires
  rulePerf,         \* performance of each rule in DetectionAgent.activeRules
  falsePositivesReduced,  \* DetectionAgent.stats.falsePositivesReduced
  pat,              \* one BehaviorPattern of a baseline and its last analysis
  edr               \* the EDRConnector and the process that runs it

vars == <<now, advances, svc, driver, graphClosing, shutdownCalled,
          processingQueue, isProcessing, nextId, evTs, evLate, call, stage,
          cur, loc, baselines, persisted, nodes, rel, cooc, runs, outcome,
          hist, evMalformed, rulePerf, falsePositivesReduced, pat, edr>>

(***************************************************************************)
(* Helpers on sequences and fractions.                                     *)
(***************************************************************************)
Range(s) == {s[i] : i \in 1..Len(s)}

Min(a, b) == IF a < b THEN a ELSE b

Max(a, b) == IF a > b THEN a ELSE b

\* The element of a singleton.  A value that an operator uses more than
\* once is bound through a singleton set, The({F(x) : x \in {expr}}), so that
\* it is computed once.
The(S) == CHOOSE v \in S : TRUE

RECURSIVE Gcd(_, _)
Gcd(a, b) == IF b = 0 THEN a ELSE The({Gcd(b, r) : r \in {a % b}})

\* The fraction n/d in lowest terms.
Frac(n, d) ==
  The({IF x = 0 THEN <<0, 1>> ELSE <<x \div g, y \div g>> :
         <<x, y, g>> \in {<<u, v, Gcd(u, v)>> : u \in {n}, v \in {d}}})

FAdd(p, q) == Frac(p[1] * q[2] + q[1] * p[2], p[2] * q[2])

FLess(p, q) == p[1] * q[2] < q[1] * p[2]

FMin(p, q) == IF FLess(p, q) THEN p ELSE q

\* String.prototype.includes on character sequences.
Includes(hay, needle) ==
  \E i \in 0..(Len(hay) - Len(needle)) :
    \A j \in 1..Len(needle) : hay[i + j] = needle[j]

(***************************************************************************)
(* BehavioralAnalytics: the baseline store.  A baseline is abstracted to   *)
(* the ordered list of events folded into its moving averages (contrib),   *)
(* its confidence (hundredths) and lastUpdated.                            *)
(***************************************************************************)
\* createInitialBaseline: confidence 0.1, all patterns at frequency 0.
NewBaseline(t) ==
  [absent |-> FALSE, contrib |-> <<>>, conf |-> InitialConfidence, lastUpdated |-> t]

NotSeen == [k |-> "none", c |-> <<>>]

\* Faulty variant of AnalyzeEntity: the entity is scored against a baseline
\* that has already taken in the event being scored.
AnalyzeEntityAfterUpdate(e, i, st, t, failAt) ==
  LET x == EventEntities(e)[i]
      b == IF st.bl[x].absent THEN NewBaseline(t) ELSE st.bl[x]
  IN [bl |-> [st.bl EXCEPT ![x] = [b EXCEPT !.contrib = Append(@, e)]],
      per |-> st.per,
      seen |-> [st.seen EXCEPT ![x] = [k |-> "warm", c |-> Append(b.contrib, e)]],
      threw |-> FALSE]

\* analyzeEntityBehavior for the i-th entity of event e.  st carries the
\* in-memory map (bl), the stored copies (per), what each entity was scored
\* against (seen) and whether storeBaseline threw.  failAt is the entity
\* whose storeBaseline call throws (0: none).
AnalyzeEntity(e, i, st, t, failAt) ==
  LET x == EventEntities(e)[i]
      b == st.bl[x]
  IN IF b.absent
       THEN [bl |-> [st.bl EXCEPT ![x] = NewBaseline(t)],
             per |-> IF failAt = i THEN st.per
                     ELSE [st.per EXCEPT ![x] = NewBaseline(t)],
             seen |-> [st.seen EXCEPT ![x] = [k |-> "cold", c |-> <<>>]],
             threw |-> (failAt = i)]
       ELSE [bl |-> st.bl, per |-> st.per,
             seen |-> [st.seen EXCEPT ![x] = [k |-> "warm", c |-> b.contrib]],
             threw |-> FALSE]

RECURSIVE AnalyzeLoop(_, _, _, _, _)
AnalyzeLoop(e, i, st, t, failAt) ==
  IF i > Len(EventEntities(e)) \/ st.threw THEN st
  ELSE The({AnalyzeLoop(e, i + 1, s1, t, failAt) :
              s1 \in {AnalyzeEntity(e, i, st, t, failAt)}})

\* analyzeEvent: throws when the service is not initialized, and rethrows
\* what analyzeEntityBehavior throws.
analyzeEvent(e, bl, per, t, initialized, failAt) ==
  IF ~initialized
    THEN [bl |-> bl, per |-> per, seen |-> [x \in Entities |-> NotSeen], threw |-> TRUE]
    ELSE AnalyzeLoop(e, 1, [bl |-> bl, per |-> per,
                            seen |-> [x \in Entities |-> NotSeen],
                            threw |-> FALSE], t, failAt)

\* Faulty variant of UpdatedBaseline: the confidence is not capped.
UpdatedBaselineUncapped(b, e, t) ==
  [absent |-> FALSE, contrib |-> Append(b.contrib, e),
   conf |-> b.conf + ConfidenceStep, lastUpdated |-> t]

\* updateEntityBaseline: moving averages take in the event, confidence
\* +0.01 capped at 1.0, lastUpdated = now; the map is written before the
\* store is awaited.
UpdatedBaseline(b, e, t) ==
  [absent |-> FALSE, contrib |-> Append(b.contrib, e),
   conf |-> Min(ConfidenceCap, b.conf + ConfidenceStep), lastUpdated |-> t]

\* Faulty variant of UpdateEntity: the update is made on a copy read from
\* the store and written over the baseline of the map.
UpdateEntityFromStore(e, i, st, t, failAt) ==
  LET x == EventEntities(e)[i]
      b0 == IF st.per[x].absent THEN NewBaseline(t) ELSE st.per[x]
      b1 == UpdatedBaseline(b0, e, t)
  IN [bl |-> [st.bl EXCEPT ![x] = b1],
      per |-> IF failAt = 2 * i THEN st.per ELSE [st.per EXCEPT ![x] = b1],
      applied |-> st.applied \cup {x},
      threw |-> (failAt = 2 * i)]

\* One turn of the loop of updateBaseline.  failAt = 2*i - 1: the store of
\* createInitialBaseline throws for entity i; failAt = 2*i: the store of
\* updateEntityBaseline throws.
UpdateEntity(e, i, st, t, failAt) ==
  LET x == EventEntities(e)[i]
      missing == st.bl[x].absent
      b0 == IF missing THEN NewBaseline(t) ELSE st.bl[x]
      createThrows == missing /\ failAt = 2 * i - 1
      b1 == UpdatedBaseline(b0, e, t)
  IN IF createThrows
       THEN [bl |-> [st.bl EXCEPT ![x] = b0], per |-> st.per,
             applied |-> st.applied, threw |-> TRUE]
       ELSE [bl |-> [st.bl EXCEPT ![x] = b1],
             per |-> IF failAt = 2 * i THEN
                       (IF missing THEN [st.per EXCEPT ![x] = b0] ELSE st.per)
                     ELSE [st.per EXCEPT ![x] = b1],
             applied |-> st.applied \cup {x},
             threw |-> (failAt = 2 * i)]

RECURSIVE UpdateLoop(_, _, _, _, _)
UpdateLoop(e, i, st, t, failAt) ==
  IF i > Len(EventEntities(e)) \/ st.threw THEN st
  ELSE The({UpdateLoop(e, i + 1, s1, t, failAt) :
              s1 \in {UpdateEntity(e, i, st, t, failAt)}})

\* updateBaseline: the try/catch is around the whole loop, so the first
\* store that throws ends the loop; the error is logged and swallowed.
updateBaseline(e, bl, per, t, failAt) ==
  UpdateLoop(e, 1, [bl |-> bl, per |-> per, applied |-> {}, threw |-> FALSE], t, failAt)

\* Faulty variant of FeedbackBaseline: the confidence has no floor.
FeedbackBaselineNoFloor(b) == [b EXCEPT !.conf = b.conf - FeedbackDecrement]

\* BehavioralAnalytics.processFeedback on one baseline.
FeedbackBaseline(b) == [b EXCEPT !.conf = Max(ConfidenceFloor, b.conf - FeedbackDecrement)]

(***************************************************************************)
(* Numbers.  The arithmetic of the patterns is binary floating point with  *)
(* rounding to the nearest value, ties to even: every operation gives the  *)
(* representable value next to the exact result.  A value has MantissaBits *)
(* significant bits (the Number of the program has 53) and a result below  *)
(* 2^-MinExponent is 0.  Values are kept as exact fractions <<n, d>>.      *)
(***************************************************************************)
RECURSIVE Pow2(_)
Pow2(k) == IF k = 0 THEN 1 ELSE 2 * Pow2(k - 1)

\* The positive fraction n/d scaled by a power of two into
\* [2^(MantissaBits-1), 2^MantissaBits): <<n', d', a, b>> with
\* n'/d' = (n/d) * a / b.
RECURSIVE Normalised(_, _, _, _)
Normalised(n, d, a, b) ==
  IF n \div d < Pow2(MantissaBits - 1)
    THEN IF d % 2 = 0 THEN Normalised(n, d \div 2, 2 * a, b)
                      ELSE Normalised(2 * n, d, 2 * a, b)
  ELSE IF n \div d >= Pow2(MantissaBits)
    THEN IF n % 2 = 0 THEN Normalised(n \div 2, d, a, 2 * b)
                      ELSE Normalised(n, 2 * d, a, 2 * b)
  ELSE <<n, d, a, b>>

\* The representable value next to the fraction x >= 0.
Round(x) ==
  IF x[1] = 0 THEN <<0, 1>>
  ELSE The({IF r[1] * Pow2(MinExponent) < r[2] THEN <<0, 1>> ELSE r :
              r \in {Frac((IF 2 * (t[1] % t[2]) > t[2]
                                \/ (2 * (t[1] % t[2]) = t[2] /\ (t[1] \div t[2]) % 2 = 1)
                              THEN t[1] \div t[2] + 1 ELSE t[1] \div t[2]) * t[4],
                          t[3]) :
                       t \in {Normalised(x[1], x[2], 1, 1)}}})

\* a + b, a * b, a / b and |a - b| of the program.
Plus(p, q) ==
  The({Round(Frac(p[1] * (q[2] \div g) + q[1] * (p[2] \div g), (p[2] \div g) * q[2])) :
         g \in {Gcd(p[2], q[2])}})

Times(p, q) == Round(Frac(p[1] * q[1], p[2] * q[2]))

Over(p, q) == Round(Frac(p[1] * q[2], p[2] * q[1]))

AbsDiff(p, q) ==
  The({Round(Frac(IF n < 0 THEN 0 - n ELSE n, (p[2] \div g) * q[2])) :
         <<g, n>> \in {<<h, p[1] * (q[2] \div h) - q[1] * (p[2] \div h)>> :
                         h \in {Gcd(p[2], q[2])}}})

(***************************************************************************)
(* One BehaviorPattern of a baseline: frequency (the mean) and variance.   *)
(* Every pattern of a baseline is analysed and updated by itself, from its *)
(* own two fields and the value extractPatternValue finds in the event.    *)
(* learningRate is in tenths, value is the pattern value of the events     *)
(* that update the pattern.                                                *)
(***************************************************************************)
NoAnalysis ==
  [done |-> FALSE, current |-> 0, isAnomaly |-> FALSE, severity |-> <<0, 1>>,
   confidence |-> <<0, 1>>, anomalies |-> <<>>, riskScore |-> <<0, 1>>,
   entityConfidence |-> <<0, 1>>]

\* initializePatterns: frequency 0 and variance 0.
NoPattern ==
  [learningRate |-> 1, value |-> 0, frequency |-> <<0, 1>>, variance |-> <<0, 1>>,
   analysis |-> NoAnalysis]

\* zScore = stdDev > 0 ? |currentValue - mean| / stdDev : 0.
zScore(mean, stdDev, currentValue) ==
  IF stdDev[1] > 0 THEN Over(AbsDiff(<<currentValue, 1>>, mean), stdDev)
                   ELSE <<0, 1>>

\* Faulty variant of analyzePattern: the deviation is divided by the
\* variance without the test stdDev > 0, so that a pattern of variance 0
\* with another value than its mean has an infinite zScore.
analyzePatternUnguarded(p, currentValue) ==
  LET mean == p.frequency
      stdDev == p.variance
      z == IF stdDev[1] > 0 THEN zScore(mean, stdDev, currentValue)
           ELSE IF AbsDiff(<<currentValue, 1>>, mean)[1] > 0 THEN <<3, 1>>
           ELSE <<0, 1>>
  IN [isAnomaly |-> FLess(Round(anomalyThreshold), z),
      severity |-> FMin(<<1, 1>>, Over(z, <<3, 1>>)),
      confidence |-> FMin(<<1, 1>>, Over(mean, <<100, 1>>))]

\* analyzePattern: isAnomaly = zScore > anomalyThreshold,
\* severity = min(1, zScore / 3), confidence = min(1, frequency / 100).
analyzePattern(p, currentValue) ==
  LET mean == p.frequency
      stdDev == p.variance
      z == zScore(mean, stdDev, currentValue)
  IN [isAnomaly |-> FLess(Round(anomalyThreshold), z),
      severity |-> FMin(<<1, 1>>, Over(z, <<3, 1>>)),
      confidence |-> FMin(<<1, 1>>, Over(mean, <<100, 1>>))]

\* analyzeEntityBehavior for an entity whose baseline holds the pattern: an
\* anomaly is pushed when analyzePattern says isAnomaly; riskScore and
\* confidence are the averages over the anomalies of severity * confidence
\* and of confidence.
analyzeEntityBehavior(p, currentValue) ==
  LET a == analyzePattern(p, currentValue)
      anomaly == [severity |-> a.severity, confidence |-> a.confidence,
                  baseline |-> p.frequency, current |-> currentValue]
  IN [done |-> TRUE, current |-> currentValue, isAnomaly |-> a.isAnomaly,
      severity |-> a.severity, confidence |-> a.confidence,
      anomalies |-> IF a.isAnomaly THEN <<anomaly>> ELSE <<>>,
      riskScore |-> IF a.isAnomaly
                      THEN Over(Times(a.severity, a.confidence), <<1, 1>>)
                      ELSE <<0, 1>>,
      entityConfidence |-> IF a.isAnomaly THEN Over(a.confidence, <<1, 1>>)
                                          ELSE <<0, 1>>]

\* The loop body of updateEntityBaseline for one pattern:
\* frequency = (1 - learningRate) * frequency + learningRate * currentValue,
\* then deviation = |currentValue - frequency| with the new frequency, and
\* variance = (1 - learningRate) * variance + learningRate * deviation.
UpdatedPattern(p, currentValue) ==
  LET learningRate == Round(Frac(p.learningRate, 10))
      keep == AbsDiff(<<1, 1>>, learningRate)
      frequency == Plus(Times(keep, p.frequency),
                        Times(learningRate, <<currentValue, 1>>))
      deviation == AbsDiff(<<currentValue, 1>>, frequency)
  IN [p EXCEPT !.frequency = frequency,
               !.variance = Plus(Times(keep, p.variance),
                                 Times(learningRate, deviation))]

(***************************************************************************)
(* GraphCorrelationEngine.  A RELATES_TO edge is                           *)
(* [src, dst, type, strength, confidence, lastSeen, iso]; a correlation is *)
(* [sourceEntity, targetEntity, relationship, strength, confidence,        *)
(* lastSeen].  iso: lastSeen is stored as an ISO-8601 string, as every     *)
(* edge written by createOrUpdateRelationship, and not as a DateTime       *)
(* value.  A comparison between a string and a DateTime value is null in   *)
(* Cypher, and a null WHERE or WHEN does not hold.                         *)
(***************************************************************************)
TypeList ==
  <<"communicates_with", "accesses", "executes", "owns", "contains", "member_of">>

\* The relationship types: the three that identifyThreatPattern names and
\* three others (the type of an edge is a free string).
RelationshipTypes == Range(TypeList)

\* Faulty variant of QueryRows: the WHERE clause on lastSeen is left out.
QueryRowsAnyAge(x, ts, R) == {r \in R : (r.src = x \/ r.dst = x) /\ r.iso}

\* The rows of the query of findEntityCorrelations: edges touching x in either
\* direction, seen within the window before the event timestamp.  The cutoff
\* is passed as an ISO string.
QueryRows(x, ts, R) ==
  {r \in R : (r.src = x \/ r.dst = x) /\ r.iso
              /\ r.lastSeen >= ts - correlationWindow}

\* ORDER BY r.strength DESC: every order of the rows the database may
\* return (rows of equal strength come in any order).
RECURSIVE OrderedByStrength(_)
OrderedByStrength(S) ==
  IF S = {} THEN {<<>>}
  ELSE UNION {{<<m>> \o t : t \in OrderedByStrength(S \ {m})} :
                m \in {m \in S : \A o \in S : o.strength <= m.strength}}

RowToCorrelation(x, r) ==
  [sourceEntity |-> x,
   targetEntity |-> IF r.src = x THEN r.dst ELSE r.src,
   relationship |-> r.type,
   strength |-> r.strength,
   confidence |-> r.confidence,
   lastSeen |-> r.lastSeen]

StrongEnough(c) == c.strength >= minCorrelationStrength

RECURSIVE MapRows(_, _)
MapRows(x, rows) ==
  IF rows = <<>> THEN <<>>
  ELSE <<RowToCorrelation(x, Head(rows))>> \o MapRows(x, Tail(rows))

\* Faulty variant of findEntityCorrelations: a query that throws still
\* hands back the rows of the graph.
findEntityCorrelationsDespiteError(x, ts, R, hasDriver, queryThrows) ==
  IF ~hasDriver THEN {<<>>}
  ELSE {SelectSeq(MapRows(x, rows), StrongEnough) :
          rows \in OrderedByStrength(QueryRows(x, ts, R))}

\* findEntityCorrelations: the possible results for entity x.  Without a
\* driver, or when the query throws, the result is empty.
findEntityCorrelations(x, ts, R, hasDriver, queryThrows) ==
  IF ~hasDriver \/ queryThrows THEN {<<>>}
  ELSE {SelectSeq(MapRows(x, rows), StrongEnough) :
          rows \in OrderedByStrength(QueryRows(x, ts, R))}

\* The loop of correlateEvent over the entities: every possible
\* concatenation of the per-entity results.  failed: the entities whose
\* query throws.
RECURSIVE CorrelationLists(_, _, _, _, _, _)
CorrelationLists(ents, i, ts, R, hasDriver, failed) ==
  IF i > Len(ents) THEN {<<>>}
  ELSE {h \o t :
          h \in findEntityCorrelations(ents[i], ts, R, hasDriver, ents[i] \in failed),
          t \in CorrelationLists(ents, i + 1, ts, R, hasDriver, failed)}

RECURSIVE SumStrength(_)
SumStrength(cs) == IF cs = <<>> THEN 0 ELSE Head(cs).strength + SumStrength(Tail(cs))

RECURSIVE SumConfidence(_)
SumConfidence(cs) == IF cs = <<>> THEN 0 ELSE Head(cs).confidence + SumConfidence(Tail(cs))

RECURSIVE SumProduct(_)
SumProduct(cs) ==
  IF cs = <<>> THEN 0
  ELSE Head(cs).strength * Head(cs).confidence + SumProduct(Tail(cs))

\* networkStrength = totalStrength / correlationCount.
NetworkStrength(cs) == IF cs = <<>> THEN <<0, 1>> ELSE Frac(SumStrength(cs), 100 * Len(cs))

\* The keys of the adjacency map, in insertion order.
RECURSIVE GraphKeys(_, _)
GraphKeys(cs, acc) ==
  IF cs = <<>> THEN acc
  ELSE LET c == Head(cs)
           a1 == IF c.sourceEntity \in Range(acc) THEN acc ELSE Append(acc, c.sourceEntity)
           a2 == IF c.targetEntity \in Range(a1) THEN a1 ELSE Append(a1, c.targetEntity)
       IN The({GraphKeys(t, a) : t \in {Tail(cs)}, a \in {a2}})

Neighbors(x, cs) ==
  {cs[i].targetEntity : i \in {j \in 1..Len(cs) : cs[j].sourceEntity = x}}
  \cup {cs[i].sourceEntity : i \in {j \in 1..Len(cs) : cs[j].targetEntity = x}}

\* dfs: everything reachable from the entities of S.
RECURSIVE dfs(_, _)
dfs(S, cs) ==
  The({IF N = S THEN S ELSE dfs(N, cs) :
         N \in {S \cup UNION {Neighbors(x, cs) : x \in S}}})

RECURSIVE ComponentsFrom(_, _, _)
ComponentsFrom(keys, visited, cs) ==
  IF keys = <<>> THEN <<>>
  ELSE IF Head(keys) \in visited THEN ComponentsFrom(Tail(keys), visited, cs)
  ELSE The({<<comp>> \o ComponentsFrom(Tail(keys), visited \cup comp, cs) :
              comp \in {dfs({Head(keys)}, cs)}})

\* findConnectedComponents: the components, in order of discovery.
findConnectedComponents(cs) ==
  The({ComponentsFrom(keys, {}, cs) : keys \in {GraphKeys(cs, <<>>)}})

\* Faulty variant of calculateChainRiskScore: the weights of strength and
\* confidence are exchanged.
calculateChainRiskScoreSwapped(entities, cs) ==
  IF cs = <<>> THEN <<0, 1>>
  ELSE Frac(40 * Min(10, Cardinality(entities)) * Len(cs)
              + 2 * SumStrength(cs) + 4 * SumConfidence(cs),
            1000 * Len(cs))

\* Faulty variant of identifyThreatPattern: the second test is made before
\* the first.
identifyThreatPatternReordered(cs) ==
  LET uniqueTypes == {cs[i].relationship : i \in 1..Len(cs)}
  IN IF "executes" \in uniqueTypes /\ "accesses" \in uniqueTypes
       THEN "privilege_escalation"
     ELSE IF "communicates_with" \in uniqueTypes /\ "accesses" \in uniqueTypes
       THEN "lateral_movement"
     ELSE IF "communicates_with" \in uniqueTypes /\ Cardinality(uniqueTypes) > 2
       THEN "command_and_control"
     ELSE IF "accesses" \in uniqueTypes /\ Cardinality(uniqueTypes) > 3
       THEN "data_exfiltration"
     ELSE "suspicious_activity"

\* calculateChainRiskScore = 0.4 * min(1, n/10) + 0.4 * avgStrength
\*                           + 0.2 * avgConfidence, 0 without correlations.
calculateChainRiskScore(entities, cs) ==
  IF cs = <<>> THEN <<0, 1>>
  ELSE Frac(40 * Min(10, Cardinality(entities)) * Len(cs)
              + 4 * SumStrength(cs) + 2 * SumConfidence(cs),
            1000 * Len(cs))

identifyThreatPattern(cs) ==
  LET uniqueTypes == {cs[i].relationship : i \in 1..Len(cs)}
  IN IF "communicates_with" \in uniqueTypes /\ "accesses" \in uniqueTypes
       THEN "lateral_movement"
     ELSE IF "executes" \in uniqueTypes /\ "accesses" \in uniqueTypes
       THEN "privilege_escalation"
     ELSE IF "communicates_with" \in uniqueTypes /\ Cardinality(uniqueTypes) > 2
       THEN "command_and_control"
     ELSE IF "accesses" \in uniqueTypes /\ Cardinality(uniqueTypes) > 3
       THEN "data_exfiltration"
     ELSE "suspicious_activity"

analyzeThreatChain(entities, cs) ==
  LET InChain(c) == c.sourceEntity \in entities /\ c.targetEntity \in entities
      chainCorrelations == SelectSeq(cs, InChain)
  IN [entities |-> entities,
      relationships |-> chainCorrelations,
      riskScore |-> calculateChainRiskScore(entities, chainCorrelations),
      pattern |-> identifyThreatPattern(chainCorrelations)]

\* Faulty variant of ChainsOf: a component of two entities is enough.
RECURSIVE ChainsOfPairs(_, _)
ChainsOfPairs(components, cs) ==
  IF components = <<>> THEN <<>>
  ELSE The({IF Cardinality(comp) >= MinChainLength - 1 /\ FLess(<<1, 2>>, chain.riskScore)
              THEN <<chain>> \o ChainsOfPairs(Tail(components), cs)
              ELSE ChainsOfPairs(Tail(components), cs) :
              <<comp, chain>> \in {<<c, analyzeThreatChain(c, cs)>> :
                                     c \in {Head(components)}}})

RECURSIVE ChainsOf(_, _)
ChainsOf(components, cs) ==
  IF components = <<>> THEN <<>>
  ELSE The({IF Cardinality(comp) >= MinChainLength /\ FLess(<<1, 2>>, chain.riskScore)
              THEN <<chain>> \o ChainsOf(Tail(components), cs)
              ELSE ChainsOf(Tail(components), cs) :
              <<comp, chain>> \in {<<c, analyzeThreatChain(c, cs)>> :
                                     c \in {Head(components)}}})

findThreatChains(cs) ==
  The({ChainsOf(components, cs) : components \in {findConnectedComponents(cs)}})

RECURSIVE SumChainRisk(_)
SumChainRisk(chains) ==
  IF chains = <<>> THEN <<0, 1>>
  ELSE FAdd(Head(chains).riskScore, SumChainRisk(Tail(chains)))

\* calculateRiskScore = min(1, 0.6 * correlationRisk + 0.4 * chainRisk).
calculateRiskScore(cs, chains) ==
  IF cs = <<>> /\ chains = <<>> THEN <<0, 1>>
  ELSE LET correlationRisk ==
             IF cs = <<>> THEN <<0, 1>> ELSE Frac(SumProduct(cs), 10000 * Len(cs))
           sumChains == SumChainRisk(chains)
           chainRisk ==
             IF chains = <<>> THEN <<0, 1>>
             ELSE Frac(sumChains[1], sumChains[2] * Len(chains))
       IN FMin(<<1, 1>>,
               FAdd(Frac(3 * correlationRisk[1], 5 * correlationRisk[2]),
                    Frac(2 * chainRisk[1], 5 * chainRisk[2])))

EmptyCorrelation ==
  [correlations |-> <<>>, networkStrength |-> <<0, 1>>, threatChains |-> <<>>,
   riskScore |-> <<0, 1>>]

\* The CorrelationResult built by correlateEvent from the correlations.
CorrelationResult(cs) ==
  The({[correlations |-> cs,
        networkStrength |-> NetworkStrength(cs),
        threatChains |-> chains,
        riskScore |-> calculateRiskScore(cs, chains)] :
         chains \in {findThreatChains(cs)}})

\* createOrUpdateRelationship: MERGE of the directed edge
\* (source)-[RELATES_TO {type}]->(target), matched only between existing
\* nodes, then SET of its properties.
createOrUpdateRelationship(R, N, c) ==
  LET M == {r \in R : r.src = c.sourceEntity /\ r.dst = c.targetEntity
                       /\ r.type = c.relationship}
      edge == [src |-> c.sourceEntity, dst |-> c.targetEntity,
               type |-> c.relationship, strength |-> c.strength,
               confidence |-> c.confidence, lastSeen |-> c.lastSeen,
               iso |-> TRUE]
  IN IF c.sourceEntity \notin N \/ c.targetEntity \notin N THEN R
     ELSE (R \ M) \cup {edge}

RECURSIVE MergeRelationships(_, _, _)
MergeRelationships(R, N, cs) ==
  IF cs = <<>> THEN R
  ELSE MergeRelationships(createOrUpdateRelationship(R, N, Head(cs)), N, Tail(cs))

\* createEventRelationships: MERGE (e_i)-[CO_OCCURRED_IN]->(e_j) for i < j,
\* then SET eventId, timestamp, strength 0.5 and confidence 0.8.
createEventRelationships(C, e, ts, ents) ==
  LET ordered == {<<i, j>> \in (1..Len(ents)) \X (1..Len(ents)) : i < j}
      touched == {<<ents[p[1]], ents[p[2]]>> : p \in ordered}
  IN {c \in C : <<c.src, c.dst>> \notin touched}
     \cup {[src |-> p[1], dst |-> p[2], eventId |-> e, timestamp |-> ts,
            strength |-> CoOccurStrength, confidence |-> CoOccurConfidence] :
             p \in touched}

\* The first statement of the private cleanupOldData of the engine: the
\* edges last seen before the cutoff of 30 days, an ISO string, are deleted.
cleanupOldRelationships(R, ts) ==
  {r \in R : ~(r.iso /\ r.lastSeen < ts - GraphRetentionHours)}

\* The CASE of optimizeGraph, in tenths: lastSeen is compared with
\* datetime() minus 7 and minus 30 days.
DecayFactor(r, ts) ==
  IF ~r.iso /\ r.lastSeen > ts - RecentHours THEN RecentFactor
  ELSE IF ~r.iso /\ r.lastSeen > ts - StaleHours THEN StaleFactor
  ELSE OldFactor

\* optimizeGraph: SET r.strength = r.strength * CASE ... END on every edge.
optimizeGraph(R, ts) ==
  {[r EXCEPT !.strength = (r.strength * DecayFactor(r, ts)) \div 10] : r \in R}

(***************************************************************************)
(* LLMService and the rule evaluation of DetectionAgent.  A reply of the   *)
(* oracle is [kind, matches, confidence]: the completion call throws, the  *)
(* answer is not JSON, or it is JSON with any confidence.                  *)
(***************************************************************************)
OracleReplies ==
  {[kind |-> "throw", matches |-> FALSE, confidence |-> 0],
   [kind |-> "garbage", matches |-> TRUE, confidence |-> 90],
   [kind |-> "json", matches |-> FALSE, confidence |-> 90],
   [kind |-> "json", matches |-> TRUE, confidence |-> 50],
   [kind |-> "json", matches |-> TRUE, confidence |-> 90],
   [kind |-> "json", matches |-> TRUE, confidence |-> 150]}

NonMatch == [matches |-> FALSE, confidence |-> 0, threw |-> FALSE]

\* Faulty variant of LLMevaluateRule: a completion that throws or cannot be
\* parsed is read as a match.
LLMevaluateRuleFailOpen(initialized, reply) ==
  IF ~initialized THEN [matches |-> FALSE, confidence |-> 0, threw |-> TRUE]
  ELSE IF reply.kind # "json" THEN [matches |-> TRUE, confidence |-> 50, threw |-> FALSE]
  ELSE [matches |-> reply.matches,
        confidence |-> Max(0, Min(100, reply.confidence)),
        threw |-> FALSE]

\* LLMService.evaluateRule: throws when not initialized; a completion that
\* throws or cannot be parsed gives the non-match; the confidence is
\* clamped to [0, 1].
LLMevaluateRule(initialized, reply) ==
  IF ~initialized THEN [matches |-> FALSE, confidence |-> 0, threw |-> TRUE]
  ELSE IF reply.kind # "json" THEN NonMatch
  ELSE [matches |-> reply.matches,
        confidence |-> Max(0, Min(100, reply.confidence)),
        threw |-> FALSE]

\* DetectionAgent.evaluateRule: whatever the service throws becomes the
\* non-match {matches: false, confidence: 0}.
evaluateRule(initialized, reply) ==
  LET llmResult == LLMevaluateRule(initialized, reply)
  IN IF llmResult.threw THEN NonMatch ELSE llmResult

\* DetectionAgent.hasSimilarRule.
hasSimilarRule(r, e) ==
  Includes(EventType(e), RuleTechnique(r)) \/ Includes(RuleTechnique(r), EventType(e))

\* One turn of the loop of evaluateRules; falsePositiveRisk in thousandths.
EvaluateStep(acc, r, e, matchResult) ==
  IF matchResult.matches
    THEN [matchedRules |-> Append(acc.matchedRules, r),
          needsRecommendation |->
            acc.needsRecommendation
            \/ (matchResult.confidence > 80 /\ ~hasSimilarRule(r, e)),
          falsePositiveRisk |->
            IF matchResult.confidence < 70
              THEN acc.falsePositiveRisk + (100 - matchResult.confidence) * 3
              ELSE acc.falsePositiveRisk]
    ELSE acc

RECURSIVE EvaluateLoop(_, _, _, _, _)
EvaluateLoop(acc, i, e, replies, initialized) ==
  IF i > Len(Rules) THEN acc
  ELSE The({EvaluateLoop(a, i + 1, e, replies, initialized) :
              a \in {EvaluateStep(acc, Rules[i], e,
                                  evaluateRule(initialized, replies[Rules[i]]))}})

evaluateRules(e, replies, initialized) ==
  LET acc == EvaluateLoop([matchedRules |-> <<>>, needsRecommendation |-> FALSE,
                           falsePositiveRisk |-> 0], 1, e, replies, initialized)
  IN [acc EXCEPT !.falsePositiveRisk = Min(1000, acc.falsePositiveRisk)]

RECURSIVE EvaluateList(_, _, _, _, _)
EvaluateList(rules, acc, e, replies, initialized) ==
  IF rules = <<>> THEN acc
  ELSE The({EvaluateList(Tail(rules), a, e, replies, initialized) :
              a \in {EvaluateStep(acc, Head(rules), e,
                                  evaluateRule(initialized, replies[Head(rules)]))}})

\* Faulty variant of evaluateRulesOf: falsePositiveRisk is returned as it
\* was summed up.
evaluateRulesUncapped(rules, e, replies, initialized) ==
  EvaluateList(rules, [matchedRules |-> <<>>, needsRecommendation |-> FALSE,
                       falsePositiveRisk |-> 0], e, replies, initialized)

\* evaluateRules over any list of active rules.
evaluateRulesOf(rules, e, replies, initialized) ==
  LET acc == EvaluateList(rules, [matchedRules |-> <<>>, needsRecommendation |-> FALSE,
                                  falsePositiveRisk |-> 0], e, replies, initialized)
  IN [acc EXCEPT !.falsePositiveRisk = Min(1000, acc.falsePositiveRisk)]

(***************************************************************************)
(* State.                                                                  *)
(***************************************************************************)
NoLocals ==
  [beh |-> [k |-> "none", seen |-> [x \in Entities |-> NotSeen]],
   corr |-> [k |-> "none", res |-> EmptyCorrelation, failed |-> {}],
   enr |-> "none",
   rr |-> [k |-> "none", res |-> [matchedRules |-> <<>>, needsRecommendation |-> FALSE,
                                   falsePositiveRisk |-> 0],
           replies |-> [r \in RuleIds |-> [kind |-> "none", matches |-> FALSE, confidence |-> 0]],
           llmUp |-> FALSE]]

\* The performance record of a rule no feedback has named yet.
NoPerformance ==
  [truePositives |-> 0, falsePositives |-> 0, accuracy |-> <<0, 1>>,
   precision |-> <<0, 1>>]

NoHistory ==
  [analysed |-> FALSE, evaluated |-> FALSE, recommended |-> FALSE,
   updateCalled |-> FALSE, applied |-> {}, failed |-> "none",
   removed |-> FALSE, discarded |-> FALSE, atShutdown |-> FALSE]

\* The contents of the graph database when the engine connects to it.
InitialGraphs ==
  {{},
   {[src |-> "A", dst |-> "B", type |-> "executes", strength |-> 90,
     confidence |-> 90, lastSeen |-> StartHour - 1, iso |-> TRUE],
    [src |-> "B", dst |-> "C", type |-> "accesses", strength |-> 85,
     confidence |-> 80, lastSeen |-> StartHour - 1, iso |-> TRUE]}}

Init ==
  /\ now = StartHour
  /\ advances = 0
  /\ svc = [llm |-> FALSE, beh |-> FALSE, graph |-> FALSE, kb |-> FALSE]
  /\ driver = FALSE
  /\ graphClosing = FALSE
  /\ shutdownCalled = FALSE
  /\ processingQueue = <<>>
  /\ isProcessing = FALSE
  /\ nextId = 1
  /\ evTs = [e \in Events |-> 0]
  /\ evLate = {}
  /\ call = [e \in Events |-> "none"]
  /\ stage = [e \in Events |-> "idle"]
  /\ cur = [e \in Events |-> NoEvent]
  /\ loc = [e \in Events |-> NoLocals]
  /\ baselines = [x \in Entities |-> NoBaseline]
  /\ persisted = [x \in Entities |-> NoBaseline]
  /\ rel \in InitialGraphs
  /\ nodes = {r.src : r \in rel} \cup {r.dst : r \in rel}
  /\ cooc = {}
  /\ runs = [e \in Events |-> 0]
  /\ outcome = [e \in Events |-> "none"]
  /\ hist = [e \in Events |-> NoHistory]
  /\ evMalformed = {}
  /\ rulePerf = [r \in RuleIds |-> NoPerformance]
  /\ falsePositivesReduced = 0
  /\ pat = NoPattern
  /\ edr = NewConnector

(***************************************************************************)
(* DetectionAgent: intake and the consumer loop.  A loop is named after    *)
(* the processEvent call that started it.                                  *)
(***************************************************************************)
Loops == Events

Initialized == svc.llm /\ svc.beh /\ svc.graph /\ svc.kb

\* DetectionAgent.initialize: the four services come up (a service that
\* fails to come up ends the process), the timers are started.
Initialize ==
  /\ ~shutdownCalled
  /\ ~Initialized
  /\ svc' = [llm |-> TRUE, beh |-> TRUE, graph |-> TRUE, kb |-> TRUE]
  /\ driver' = TRUE
  /\ UNCHANGED <<now, advances, graphClosing, shutdownCalled, processingQueue,
                 isProcessing, nextId, evTs, evLate, call, stage, cur, loc,
                 baselines, persisted, nodes, rel, cooc, runs, outcome, hist>>
  /\ UNCHANGED <<evMalformed, rulePerf, falsePositivesReduced, pat, edr>>

\* processQueue after a pipeline run of loop l has ended, with q the queue:
\* the while loop shifts the next event, or the finally block clears
\* isProcessing and processEvent returns.
LoopNext(l, q) ==
  IF q # <<>>
    THEN /\ processingQueue' = Tail(q)
         /\ cur' = [cur EXCEPT ![l] = Head(q)]
         /\ stage' = [stage EXCEPT ![l] = "analyze"]
         /\ runs' = [runs EXCEPT ![Head(q)] = @ + 1]
         /\ loc' = [loc EXCEPT ![l] = NoLocals]
         /\ UNCHANGED <<isProcessing, call>>
    ELSE /\ processingQueue' = q
         /\ cur' = [cur EXCEPT ![l] = NoEvent]
         /\ stage' = [stage EXCEPT ![l] = "idle"]
         /\ loc' = [loc EXCEPT ![l] = NoLocals]
         /\ isProcessing' = FALSE
         /\ call' = [call EXCEPT ![l] = "returned"]
         /\ UNCHANGED runs

\* processEvent(e): push; if no loop is marked as running, processQueue
\* sets isProcessing, shifts the head of the queue and enters the pipeline;
\* otherwise the call returns at once.  Nothing on this path looks at the
\* fields of the event: malformed says that the event lacks a field that
\* SecurityEvent requires and the pipeline does not dereference (its
\* source, its severity), and all it changes is the record kept of it.
Submit(e, malformed) ==
  /\ nextId = e
  /\ e <= MaxEvents
  /\ nextId' = e + 1
  /\ evTs' = [evTs EXCEPT ![e] = EventTimestamp(e, now)]
  /\ evLate' = IF shutdownCalled THEN evLate \cup {e} ELSE evLate
  /\ LET q == Append(processingQueue, e)
     IN IF ~isProcessing
          THEN /\ isProcessing' = TRUE
               /\ processingQueue' = Tail(q)
               /\ cur' = [cur EXCEPT ![e] = Head(q)]
               /\ stage' = [stage EXCEPT ![e] = "analyze"]
               /\ call' = [call EXCEPT ![e] = "looping"]
               /\ runs' = [runs EXCEPT ![Head(q)] = @ + 1]
          ELSE /\ processingQueue' = q
               /\ call' = [call EXCEPT ![e] = "returned"]
               /\ UNCHANGED <<isProcessing, cur, stage, runs>>
  /\ evMalformed' = IF malformed THEN evMalformed \cup {e} ELSE evMalformed
  /\ UNCHANGED <<now, advances, svc, driver, graphClosing, shutdownCalled, loc,
                 baselines, persisted, nodes, rel, cooc, outcome, hist, rulePerf,
                 falsePositivesReduced, pat, edr>>

\* processEvent called with an event that has every required field.
processEvent(e) == Submit(e, FALSE)

\* processEvent called with an event that lacks a required field.
processMalformedEvent(e) == Submit(e, TRUE)

\* The catch block of processEventPipeline: the run of loop l ends without
\* the stages that were still to come.  failedStage is the stage whose call
\* threw, or "down" when it threw because its service is not initialized.
Abort(l, failedStage) ==
  /\ outcome' = [outcome EXCEPT ![cur[l]] = "aborted"]
  /\ hist' = [hist EXCEPT ![cur[l]].failed = failedStage,
                          ![cur[l]].analysed = @ \/ (failedStage = "analyze" /\ svc.beh)]
  /\ LoopNext(l, processingQueue)

\* Step 1 of the pipeline: behavioralAnalytics.analyzeEvent.
Analyze(l) ==
  /\ stage[l] = "analyze"
  /\ \E failAt \in 0..Len(EventEntities(cur[l])) :
       LET r == analyzeEvent(cur[l], baselines, persisted, now, svc.beh, failAt)
       IN /\ baselines' = r.bl
          /\ persisted' = r.per
          /\ IF r.threw
               THEN Abort(l, IF svc.beh THEN "analyze" ELSE "down")
               ELSE /\ loc' = [loc EXCEPT ![l].beh = [k |-> "ok", seen |-> r.seen]]
                    /\ stage' = [stage EXCEPT ![l] = "correlate"]
                    /\ hist' = [hist EXCEPT ![cur[l]].analysed = TRUE]
                    /\ UNCHANGED <<processingQueue, cur, isProcessing, call, runs,
                                   outcome>>
  /\ UNCHANGED <<now, advances, svc, driver, graphClosing, shutdownCalled, nextId,
                 evTs, evLate, nodes, rel, cooc>>
  /\ UNCHANGED <<evMalformed, rulePerf, falsePositivesReduced, pat, edr>>

\* Step 2: graphCorrelation.correlateEvent, which throws when the engine is
\* not initialized, swallows the errors of its queries and of its graph
\* update, and calls updateGraph with three arguments.  The class defines
\* updateGraph twice, with three parameters (543) and with two (653, which
\* only logs), so the update is written or not: written when the call
\* reaches the first definition and no statement throws, not written
\* otherwise.  detailed: every subset of the queries may throw and the
\* update is written or not; otherwise the queries throw all together or not
\* at all and the update is written.
Correlate(l, detailed) ==
  /\ stage[l] = "correlate"
  /\ LET e == cur[l]
         ents == EventEntities(e)
     IN IF ~svc.graph
          THEN /\ Abort(l, "down")
               /\ UNCHANGED <<nodes, rel, cooc>>
          ELSE \E failed \in IF detailed THEN SUBSET Range(ents)
                                          ELSE {{}, Range(ents)},
                  written \in IF detailed THEN BOOLEAN ELSE {TRUE} :
               \E cs \in CorrelationLists(ents, 1, evTs[e], rel, driver, failed) :
                 /\ loc' = [loc EXCEPT ![l].corr =
                              [k |-> "ok", res |-> CorrelationResult(cs),
                               failed |-> IF driver THEN failed ELSE Range(ents)]]
                 /\ IF driver /\ written
                      THEN /\ nodes' = nodes \cup Range(ents)
                           /\ rel' = MergeRelationships(rel, nodes \cup Range(ents), cs)
                           /\ cooc' = createEventRelationships(cooc, e, evTs[e], ents)
                      ELSE UNCHANGED <<nodes, rel, cooc>>
                 /\ stage' = [stage EXCEPT ![l] = "enrich"]
                 /\ UNCHANGED <<processingQueue, cur, isProcessing, call, runs,
                                outcome, hist>>
  /\ UNCHANGED <<now, advances, svc, driver, graphClosing, shutdownCalled, nextId,
                 evTs, evLate, baselines, persisted>>
  /\ UNCHANGED <<evMalformed, rulePerf, falsePositivesReduced, pat, edr>>

\* Step 3: knowledgeBase.enrichEvent, which rethrows every error.
Enrich(l) ==
  /\ stage[l] = "enrich"
  /\ \E result \in {"throws", "empty", "hits"} :
       IF ~svc.kb \/ result = "throws"
         THEN Abort(l, IF svc.kb THEN "enrich" ELSE "down")
         ELSE /\ loc' = [loc EXCEPT ![l].enr = result]
              /\ stage' = [stage EXCEPT ![l] = "rules"]
              /\ UNCHANGED <<processingQueue, cur, isProcessing, call, runs,
                             outcome, hist>>
  /\ UNCHANGED <<now, advances, svc, driver, graphClosing, shutdownCalled, nextId,
                 evTs, evLate, baselines, persisted, nodes, rel, cooc>>
  /\ UNCHANGED <<evMalformed, rulePerf, falsePositivesReduced, pat, edr>>

\* The oracle gives the same reply for every rule.
UniformReplies == {[r \in RuleIds |-> y] : y \in OracleReplies}

\* Step 4: evaluateRules, with the replies the oracle gives for the rules.
\* detailed: any reply for each rule; otherwise the same reply for all.
EvaluateRules(l, detailed) ==
  /\ stage[l] = "rules"
  /\ \E replies \in IF detailed THEN [RuleIds -> OracleReplies] ELSE UniformReplies :
       LET res == evaluateRules(cur[l], replies, svc.llm)
       IN /\ loc' = [loc EXCEPT ![l].rr = [k |-> "ok", res |-> res,
                                            replies |-> replies, llmUp |-> svc.llm]]
          /\ stage' = [stage EXCEPT ![l] =
                         IF res.needsRecommendation THEN "recommend" ELSE "update"]
  /\ hist' = [hist EXCEPT ![cur[l]].evaluated = TRUE]
  /\ UNCHANGED <<now, advances, svc, driver, graphClosing, shutdownCalled,
                 processingQueue, isProcessing, nextId, evTs, evLate, call, cur,
                 baselines, persisted, nodes, rel, cooc, runs, outcome>>
  /\ UNCHANGED <<evMalformed, rulePerf, falsePositivesReduced, pat, edr>>

\* The completion call of generateCompletion carries no timeout: when the
\* oracle never answers, the await never resumes.
OracleHangs(l) ==
  /\ stage[l] = "rules"
  /\ svc.llm
  /\ stage' = [stage EXCEPT ![l] = "hung"]
  /\ UNCHANGED <<now, advances, svc, driver, graphClosing, shutdownCalled,
                 processingQueue, isProcessing, nextId, evTs, evLate, call, cur, loc,
                 baselines, persisted, nodes, rel, cooc, runs, outcome, hist>>
  /\ UNCHANGED <<evMalformed, rulePerf, falsePositivesReduced, pat, edr>>

\* Step 5: generateRecommendations, which swallows every error.
Recommend(l) ==
  /\ stage[l] = "recommend"
  /\ stage' = [stage EXCEPT ![l] = "update"]
  /\ hist' = [hist EXCEPT ![cur[l]].recommended = TRUE]
  /\ UNCHANGED <<now, advances, svc, driver, graphClosing, shutdownCalled,
                 processingQueue, isProcessing, nextId, evTs, evLate, call, cur, loc,
                 baselines, persisted, nodes, rel, cooc, runs, outcome>>
  /\ UNCHANGED <<evMalformed, rulePerf, falsePositivesReduced, pat, edr>>

\* Step 6: updateLearningModels: updateBaseline, then the two-argument
\* updateGraph (which only logs) and updateWithEvent (errors swallowed).
\* The pipeline run ends and the loop goes on.
Update(l) ==
  /\ stage[l] = "update"
  /\ \E failAt \in 0..(2 * Len(EventEntities(cur[l]))) :
       LET r == updateBaseline(cur[l], baselines, persisted, now, failAt)
       IN /\ baselines' = r.bl
          /\ persisted' = r.per
          /\ hist' = [hist EXCEPT ![cur[l]].updateCalled = TRUE,
                                  ![cur[l]].applied = r.applied]
  /\ outcome' = [outcome EXCEPT ![cur[l]] = "finished"]
  /\ LoopNext(l, processingQueue)
  /\ UNCHANGED <<now, advances, svc, driver, graphClosing, shutdownCalled, nextId,
                 evTs, evLate, nodes, rel, cooc>>
  /\ UNCHANGED <<evMalformed, rulePerf, falsePositivesReduced, pat, edr>>

(***************************************************************************)
(* Callbacks: feedback, timers, the clock, shutdown.                       *)
(***************************************************************************)
\* Faulty variant of UpdatedPerformance: the ratios are computed before the
\* counter is incremented.
UpdatedPerformanceStale(p, isFalsePositive) ==
  [truePositives |-> IF isFalsePositive THEN p.truePositives ELSE p.truePositives + 1,
   falsePositives |-> IF isFalsePositive THEN p.falsePositives + 1 ELSE p.falsePositives,
   accuracy |-> IF p.truePositives + p.falsePositives = 0 THEN <<0, 1>>
                ELSE Frac(p.truePositives, p.truePositives + p.falsePositives),
   precision |-> IF p.truePositives + p.falsePositives = 0 THEN <<0, 1>>
                 ELSE Frac(p.truePositives, p.truePositives + p.falsePositives)]

\* updateRulePerformance on the performance record of a rule: one counter
\* is incremented, accuracy and precision are recomputed from both.
UpdatedPerformance(p, isFalsePositive) ==
  LET tp == IF isFalsePositive THEN p.truePositives ELSE p.truePositives + 1
      fp == IF isFalsePositive THEN p.falsePositives + 1 ELSE p.falsePositives
  IN [truePositives |-> tp, falsePositives |-> fp,
      accuracy |-> Frac(tp, tp + fp), precision |-> Frac(tp, tp + fp)]

\* updateRulePerformance(ruleId, feedback): a rule id that is not in
\* activeRules changes nothing.
updateRulePerformance(P, ruleId, isFalsePositive) ==
  IF ruleId \in DOMAIN P
    THEN [P EXCEPT ![ruleId] = UpdatedPerformance(@, isFalsePositive)]
    ELSE P

\* The rule ids a feedback may carry: none (""), an active rule, a rule the
\* agent does not hold.
FeedbackRuleIds == RuleIds \cup {"", "r9"}

\* The feedback.received handler: BehavioralAnalytics.processFeedback
\* lowers the confidence of the baseline of a known entity on a false
\* positive and stores it (a store that throws is logged); then, when the
\* feedback names a rule, updateRulePerformance (the rule is changed in
\* place before it is stored); then the false positive is counted.
processFeedback(x, ruleId, isFalsePositive, storeThrows) ==
  /\ isFalsePositive => falsePositivesReduced < MaxFeedback
  /\ falsePositivesReduced' = IF isFalsePositive THEN falsePositivesReduced + 1
                                                 ELSE falsePositivesReduced
  /\ ruleId \in RuleIds =>
       rulePerf[ruleId].truePositives + rulePerf[ruleId].falsePositives < MaxFeedback
  /\ rulePerf' = IF ruleId # "" THEN updateRulePerformance(rulePerf, ruleId, isFalsePositive)
                               ELSE rulePerf
  /\ UNCHANGED <<evMalformed, pat, edr>>
  /\ IF isFalsePositive /\ ~baselines[x].absent
       THEN /\ baselines' = [baselines EXCEPT ![x] = FeedbackBaseline(@)]
            /\ persisted' = IF storeThrows THEN persisted
                            ELSE [persisted EXCEPT ![x] = FeedbackBaseline(baselines[x])]
       ELSE UNCHANGED <<baselines, persisted>>
  /\ UNCHANGED <<now, advances, svc, driver, graphClosing, shutdownCalled,
                 processingQueue, isProcessing, nextId, evTs, evLate, call, stage,
                 cur, loc, nodes, rel, cooc, runs, outcome, hist>>

KeptByCleanup(e) == evTs[e] > now - QueueRetentionHours

\* DetectionAgent.cleanupOldData, run by the 24 h timer that initialize
\* starts and shutdown leaves running: queued events older than 7 days are
\* filtered out, stored baselines older than the cutoff are cleaned up, the
\* graph engine only logs.
cleanupOldData ==
  /\ driver \/ shutdownCalled
  /\ processingQueue' = SelectSeq(processingQueue, KeptByCleanup)
  /\ hist' = [e \in Events |->
                IF e \in Range(processingQueue) /\ ~KeptByCleanup(e)
                  THEN [hist[e] EXCEPT !.removed = TRUE] ELSE hist[e]]
  /\ persisted' = [x \in Entities |->
                     IF ~persisted[x].absent
                        /\ persisted[x].lastUpdated < now - QueueRetentionHours
                       THEN NoBaseline ELSE persisted[x]]
  /\ UNCHANGED <<now, advances, svc, driver, graphClosing, shutdownCalled,
                 isProcessing, nextId, evTs, evLate, call, stage, cur, loc,
                 baselines, nodes, rel, cooc, runs, outcome>>
  /\ UNCHANGED <<evMalformed, rulePerf, falsePositivesReduced, pat, edr>>

Expired(b) == ~b.absent /\ b.lastUpdated < now - BaselineRetentionHours

\* BehavioralAnalytics.cleanupOldBaselines, run by the timer that lives
\* from initialize to shutdown: baselines not updated for 30 days are
\* deleted from the map and from the store.
cleanupOldBaselines ==
  /\ svc.beh
  /\ baselines' = [x \in Entities |-> IF Expired(baselines[x]) THEN NoBaseline
                                               ELSE baselines[x]]
  /\ persisted' = [x \in Entities |-> IF Expired(baselines[x]) THEN NoBaseline
                                               ELSE persisted[x]]
  /\ UNCHANGED <<now, advances, svc, driver, graphClosing, shutdownCalled,
                 processingQueue, isProcessing, nextId, evTs, evLate, call, stage,
                 cur, loc, nodes, rel, cooc, runs, outcome, hist>>
  /\ UNCHANGED <<evMalformed, rulePerf, falsePositivesReduced, pat, edr>>

\* The timer callback of startBackgroundProcessing, alive from initialize to
\* shutdown: this.cleanupOldData() and then optimizeGraph.  The class
\* defines cleanupOldData twice, without parameter (676, the deletion) and
\* with one (736, which only logs): cleans tells that the call reaches the
\* first.  The deletion of the orphaned nodes, any of which may be older
\* than the cutoff, fails as a whole when one of them still has a
\* co-occurrence edge, and cleanupOldData swallows the error.  decays: the
\* statement of optimizeGraph does not throw.  Strengths are whole
\* hundredths: a pass is followed as long as its products are.
BackgroundProcessing(cleans, decays) ==
  /\ svc.graph
  /\ ~graphClosing
  /\ driver
  /\ LET kept == IF cleans THEN cleanupOldRelationships(rel, now) ELSE rel
         orphans == IF cleans
                      THEN {x \in nodes : \A r \in kept : x \notin {r.src, r.dst}}
                      ELSE {}
     IN /\ \E old \in SUBSET orphans :
             nodes' = IF \E c \in cooc : {c.src, c.dst} \cap old # {}
                        THEN nodes ELSE nodes \ old
        /\ decays => \A r \in kept : (r.strength * DecayFactor(r, now)) % 10 = 0
        /\ rel' = IF decays THEN optimizeGraph(kept, now) ELSE kept
  /\ UNCHANGED <<now, advances, svc, driver, graphClosing, shutdownCalled,
                 processingQueue, isProcessing, nextId, evTs, evLate, call, stage,
                 cur, loc, baselines, persisted, cooc, runs, outcome, hist>>
  /\ UNCHANGED <<evMalformed, rulePerf, falsePositivesReduced, pat, edr>>

\* Time passes: more than the retention windows at once.
AdvanceClock ==
  /\ advances < MaxAdvance
  /\ advances' = advances + 1
  /\ now' = now + AdvanceHours
  /\ UNCHANGED <<svc, driver, graphClosing, shutdownCalled, processingQueue,
                 isProcessing, nextId, evTs, evLate, call, stage, cur, loc,
                 baselines, persisted, nodes, rel, cooc, runs, outcome, hist>>
  /\ UNCHANGED <<evMalformed, rulePerf, falsePositivesReduced, pat, edr>>

InFlight == {cur[l] : l \in {m \in Loops : stage[m] # "idle"}}

\* DetectionAgent.shutdown up to its await: isProcessing is cleared and the
\* queue emptied whatever the loops are doing; the shutdown methods of the
\* LLM, behavioural and knowledge services clear their flags at once, the
\* graph engine first awaits driver.close().
shutdown ==
  /\ Initialized
  /\ ~shutdownCalled
  /\ shutdownCalled' = TRUE
  /\ isProcessing' = FALSE
  /\ processingQueue' = <<>>
  /\ hist' = [e \in Events |->
                IF e \in Range(processingQueue) THEN [hist[e] EXCEPT !.discarded = TRUE]
                ELSE IF e \in InFlight THEN [hist[e] EXCEPT !.atShutdown = TRUE]
                ELSE hist[e]]
  /\ svc' = [svc EXCEPT !.llm = FALSE, !.beh = FALSE, !.kb = FALSE]
  /\ graphClosing' = TRUE
  /\ UNCHANGED <<now, advances, driver, nextId, evTs, evLate, call, stage, cur,
                 loc, baselines, persisted, nodes, rel, cooc, runs, outcome>>
  /\ UNCHANGED <<evMalformed, rulePerf, falsePositivesReduced, pat, edr>>

\* GraphCorrelationEngine.shutdown after driver.close() has resolved.
GraphClosed ==
  /\ graphClosing
  /\ graphClosing' = FALSE
  /\ driver' = FALSE
  /\ svc' = [svc EXCEPT !.graph = FALSE]
  /\ UNCHANGED <<now, advances, shutdownCalled, processingQueue, isProcessing,
                 nextId, evTs, evLate, call, stage, cur, loc, baselines, persisted,
                 nodes, rel, cooc, runs, outcome, hist>>
  /\ UNCHANGED <<evMalformed, rulePerf, falsePositivesReduced, pat, edr>>

\* The consumer under load: any number of events, one outcome class per
\* stage.
Next ==
  \/ Initialize
  \/ \E e \in Events : processEvent(e)
  \/ \E l \in Loops : Analyze(l)
  \/ \E l \in Loops : Correlate(l, FALSE)
  \/ \E l \in Loops : Enrich(l)
  \/ \E l \in Loops : EvaluateRules(l, FALSE)
  \/ \E l \in Loops : OracleHangs(l)
  \/ \E l \in Loops : Recommend(l)
  \/ \E l \in Loops : Update(l)
  \/ cleanupOldData
  \/ shutdown
  \/ GraphClosed

Spec == Init /\ [][Next]_vars

PipelineStep ==
  \E l \in Loops :
    \/ Analyze(l)
    \/ Correlate(l, FALSE)
    \/ Enrich(l)
    \/ EvaluateRules(l, FALSE)
    \/ Recommend(l)
    \/ Update(l)

\* The scheduler runs every continuation of the agent that is ready and
\* closes the driver; the environment (submissions, timers, signals) owes
\* nothing, and an oracle that hangs never answers.
FairSpec ==
  /\ Spec
  /\ WF_vars(PipelineStep)
  /\ WF_vars(GraphClosed)

\* One event through the pipeline, with every outcome of every call, while
\* feedback arrives and the agent may be shut down.
PipelineNext ==
  \/ Initialize
  \/ processEvent(1)
  \/ \E l \in Loops : Analyze(l)
  \/ \E l \in Loops : Correlate(l, TRUE)
  \/ \E l \in Loops : Enrich(l)
  \/ \E l \in Loops : EvaluateRules(l, TRUE)
  \/ \E l \in Loops : OracleHangs(l)
  \/ \E l \in Loops : Recommend(l)
  \/ \E l \in Loops : Update(l)
  \/ \E x \in Entities, fp \in BOOLEAN, st \in BOOLEAN : processFeedback(x, "", fp, st)
  \/ shutdown
  \/ GraphClosed

PipelineSpec == Init /\ [][PipelineNext]_vars

\* Confidences a baseline has had after some history of updates and
\* feedback: the initial one, the two around the point where the floor of
\* the feedback sets in, the last one below the cap and the cap.
SampledConfidences ==
  {InitialConfidence,
   InitialConfidence + FeedbackDecrement - ConfidenceStep,
   InitialConfidence + FeedbackDecrement,
   ConfidenceCap - ConfidenceStep,
   ConfidenceCap}

StoredBaselines ==
  {NoBaseline} \cup
  {[absent |-> FALSE, contrib |-> <<>>, conf |-> c, lastUpdated |-> StartHour] :
     c \in SampledConfidences}

\* The stores the model starts from: no baseline, or one entity with a
\* baseline from earlier events (contrib lists the events since).
StoredStores ==
  {[x \in Entities |-> NoBaseline]} \cup
  {[x \in Entities |-> IF x = y THEN b ELSE NoBaseline] :
     y \in Entities, b \in StoredBaselines}

AllUp == [llm |-> TRUE, beh |-> TRUE, graph |-> TRUE, kb |-> TRUE]

\* Some time after the services were initialized (Services: which of them
\* are): the baseline store is one of Stores, the graph database holds one
\* of Graphs, and the pattern that is followed is one of Patterns.
Started(Services, Stores, Graphs, Patterns) ==
  /\ now = StartHour
  /\ advances = 0
  /\ svc \in Services
  /\ driver = TRUE
  /\ graphClosing = FALSE
  /\ shutdownCalled = FALSE
  /\ processingQueue = <<>>
  /\ isProcessing = FALSE
  /\ nextId = 1
  /\ evTs = [e \in Events |-> 0]
  /\ evLate = {}
  /\ call = [e \in Events |-> "none"]
  /\ stage = [e \in Events |-> "idle"]
  /\ cur = [e \in Events |-> NoEvent]
  /\ loc = [e \in Events |-> NoLocals]
  /\ baselines \in Stores
  /\ persisted = baselines
  /\ rel \in Graphs
  /\ nodes = {r.src : r \in rel} \cup {r.dst : r \in rel}
  /\ cooc = {}
  /\ runs = [e \in Events |-> 0]
  /\ outcome = [e \in Events |-> "none"]
  /\ hist = [e \in Events |-> NoHistory]
  /\ evMalformed = {}
  /\ rulePerf = [r \in RuleIds |-> NoPerformance]
  /\ falsePositivesReduced = 0
  /\ pat \in Patterns
  /\ edr = NewConnector

StoreStart(Stores) == Started({AllUp}, Stores, {{}}, {NoPattern})

StoreInit == StoreStart(StoredStores)

\* behavioralAnalytics.updateBaseline(e) as updateLearningModels calls it,
\* once per event, in the order of the events.
UpdateBaselineCall(e) ==
  /\ nextId = e
  /\ e <= MaxEvents
  /\ nextId' = e + 1
  /\ \E failAt \in 0..(2 * Len(EventEntities(e))) :
       LET r == updateBaseline(e, baselines, persisted, now, failAt)
       IN /\ baselines' = r.bl
          /\ persisted' = r.per
          /\ hist' = [hist EXCEPT ![e].updateCalled = TRUE, ![e].applied = r.applied]
  /\ UNCHANGED <<now, advances, svc, driver, graphClosing, shutdownCalled,
                 processingQueue, isProcessing, evTs, evLate, call, stage,
                 cur, loc, nodes, rel, cooc, runs, outcome, evMalformed, rulePerf,
                 falsePositivesReduced, pat, edr>>

\* The baseline store under updates and feedback.
StoreNext ==
  \/ \E e \in Events : UpdateBaselineCall(e)
  \/ \E x \in Entities, fp \in BOOLEAN, st \in BOOLEAN : processFeedback(x, "", fp, st)

StoreSpec == StoreInit /\ [][StoreNext]_vars

\* The pipeline of one event with false-positive feedback arriving at any of
\* its awaits, from a store that holds baselines already.
FlightNext ==
  \/ processEvent(1)
  \/ \E l \in Loops : Analyze(l)
  \/ \E l \in Loops : Correlate(l, FALSE)
  \/ \E l \in Loops : Enrich(l)
  \/ \E l \in Loops : EvaluateRules(l, FALSE)
  \/ \E l \in Loops : Recommend(l)
  \/ \E l \in Loops : Update(l)
  \/ \E x \in Entities, st \in BOOLEAN : processFeedback(x, "", TRUE, st)

FlightSpec == StoreInit /\ [][FlightNext]_vars

\* Stores whose baseline was last updated just now, 8 days ago or 31 days
\* ago.
AgedStores ==
  {[x \in Entities |-> NoBaseline]} \cup
  {[x \in Entities |->
      IF x = y THEN [absent |-> FALSE, contrib |-> <<>>, conf |-> InitialConfidence,
                     lastUpdated |-> StartHour - age]
               ELSE NoBaseline] :
     y \in Entities,
     age \in {0, QueueRetentionHours + 24, BaselineRetentionHours + 24}}

\* The baseline store over time: updates, the retention sweep of the
\* analytics, the daily cleanup of the agent and the clock.
RetentionNext ==
  \/ \E e \in Events : UpdateBaselineCall(e)
  \/ cleanupOldBaselines
  \/ cleanupOldData
  \/ AdvanceClock

RetentionSpec == StoreStart(AgedStores) /\ [][RetentionNext]_vars

\* Intake: events with and without their required fields, one outcome
\* class per stage.
IntakeNext ==
  \/ Initialize
  \/ \E e \in Events : processEvent(e)
  \/ \E e \in Events : processMalformedEvent(e)
  \/ \E l \in Loops : Analyze(l)
  \/ \E l \in Loops : Correlate(l, FALSE)
  \/ \E l \in Loops : Enrich(l)
  \/ \E l \in Loops : EvaluateRules(l, FALSE)
  \/ \E l \in Loops : Recommend(l)
  \/ \E l \in Loops : Update(l)

IntakeSpec == Init /\ [][IntakeNext]_vars

\* Graphs the engine may find in the database: the empty one, a chain of
\* three entities with strong edges, a single pair with the strongest
\* edge there is, and a chain of three whose edges average to strength 0.7
\* and confidence 0.5.
StoredGraphs ==
  InitialGraphs \cup
  {{[src |-> "A", dst |-> "B", type |-> "executes", strength |-> 100,
     confidence |-> 100, lastSeen |-> StartHour - 1, iso |-> TRUE]},
   {[src |-> "A", dst |-> "B", type |-> "communicates_with", strength |-> 90,
     confidence |-> 50, lastSeen |-> StartHour - 1, iso |-> TRUE],
    [src |-> "B", dst |-> "C", type |-> "owns", strength |-> 50,
     confidence |-> 50, lastSeen |-> StartHour - 1, iso |-> TRUE]}}

\* The entities an event may reference.
EntityLists ==
  {<<"A">>, <<"B">>, <<"C">>, <<"A", "B">>, <<"B", "C">>, <<"A", "C">>,
   <<"A", "B", "C">>}

\* The agent after initialize, connected to a graph database that holds
\* one of Graphs.
GraphStart(Graphs) ==
  Started({AllUp}, {[x \in Entities |-> NoBaseline]}, Graphs, {NoPattern})

GraphInit == GraphStart(StoredGraphs)

\* graphCorrelation.correlateEvent for the event of id e and timestamp now
\* that references the entities ents; the result is kept as the locals of
\* e.  The queries throw all together or not at all; the graph update is
\* written or not.
CorrelateCall(e, ents) ==
  /\ nextId = e
  /\ e <= MaxEvents
  /\ svc.graph
  /\ nextId' = e + 1
  /\ evTs' = [evTs EXCEPT ![e] = now]
  /\ \E failed \in {{}, Range(ents)}, written \in BOOLEAN :
       \E cs \in CorrelationLists(ents, 1, now, rel, driver, failed) :
         /\ loc' = [loc EXCEPT ![e].corr =
                      [k |-> "ok", res |-> CorrelationResult(cs), failed |-> failed]]
         /\ IF driver /\ written
              THEN /\ nodes' = nodes \cup Range(ents)
                   /\ rel' = MergeRelationships(rel, nodes \cup Range(ents), cs)
                   /\ cooc' = createEventRelationships(cooc, e, now, ents)
              ELSE UNCHANGED <<nodes, rel, cooc>>
  /\ UNCHANGED <<now, advances, svc, driver, graphClosing, shutdownCalled,
                 processingQueue, isProcessing, evLate, call, stage, cur,
                 baselines, persisted, runs, outcome, hist, evMalformed, rulePerf,
                 falsePositivesReduced, pat, edr>>

\* Correlation of events one after the other against a stored graph.
GraphNext == \E e \in Events, ents \in EntityLists : CorrelateCall(e, ents)

GraphSpec == GraphInit /\ [][GraphNext]_vars

\* A stored graph over A, B and C whose edges carry exactly the relationship
\* types of T: the types of odd rank join A and B, those of even rank B and
\* C, and a pair that would stay without edge gets the first type of T.
\* The strengths are pairwise distinct and at least 0.88.
TypedGraph(T) ==
  LET I == {i \in 1..Len(TypeList) : TypeList[i] \in T}
      first == CHOOSE i \in I : \A j \in I : i <= j
      odd == {i \in I : i % 2 = 1}
      even == {i \in I : i % 2 = 0}
      AB == IF odd = {} THEN {first} ELSE odd
      BC == IF even = {} THEN {first} ELSE even
  IN {[src |-> "A", dst |-> "B", type |-> TypeList[i], strength |-> 100 - i,
       confidence |-> 100, lastSeen |-> StartHour - 1, iso |-> TRUE] : i \in AB}
     \cup {[src |-> "B", dst |-> "C", type |-> TypeList[i],
             strength |-> 100 - Len(TypeList) - i, confidence |-> 100,
             lastSeen |-> StartHour - 1, iso |-> TRUE] : i \in BC}

TypedGraphs == {TypedGraph(T) : T \in (SUBSET RelationshipTypes) \ {{}}}

\* Correlation of events that reference A, B and C (a chain needs three
\* entities) against the typed graphs.
PatternNext == \E e \in Events : CorrelateCall(e, <<"A", "B", "C">>)

PatternSpec == GraphStart(TypedGraphs) /\ [][PatternNext]_vars

\* Stored graphs with edges on both sides of the two filters: a strong
\* recent edge, an edge just below the threshold, a strong edge last seen
\* before the window, and an edge exactly at the threshold and at the
\* start of the window; and a graph without any edge that passes.
WindowGraphs ==
  {{[src |-> "A", dst |-> "B", type |-> "executes", strength |-> 90,
     confidence |-> 90, lastSeen |-> StartHour - 1, iso |-> TRUE],
    [src |-> "A", dst |-> "C", type |-> "accesses",
     strength |-> minCorrelationStrength - 1, confidence |-> 90,
     lastSeen |-> StartHour - 1, iso |-> TRUE],
    [src |-> "B", dst |-> "C", type |-> "owns", strength |-> 90,
     confidence |-> 90, lastSeen |-> StartHour - correlationWindow - 1, iso |-> TRUE],
    [src |-> "C", dst |-> "B", type |-> "communicates_with",
     strength |-> minCorrelationStrength, confidence |-> 50,
     lastSeen |-> StartHour - correlationWindow, iso |-> TRUE]},
   {[src |-> "A", dst |-> "B", type |-> "executes",
     strength |-> minCorrelationStrength - 1, confidence |-> 90,
     lastSeen |-> StartHour - 1, iso |-> TRUE],
    [src |-> "B", dst |-> "C", type |-> "accesses", strength |-> 100,
     confidence |-> 90, lastSeen |-> StartHour - correlationWindow - 1, iso |-> TRUE]}}

\* Correlation of events against the graphs of WindowGraphs.
WindowSpec == GraphStart(WindowGraphs) /\ [][GraphNext]_vars

\* Stored graphs of every age: edges written by createOrUpdateRelationship,
\* with lastSeen an ISO string, one hour and twelve days old; and edges
\* whose lastSeen is a DateTime value, one hour, exactly 7 days, twelve days,
\* exactly 30 days and 33 days old.
DecayGraphs ==
  {{[src |-> "A", dst |-> "B", type |-> "executes", strength |-> 100,
     confidence |-> 90, lastSeen |-> StartHour - 1, iso |-> TRUE],
    [src |-> "B", dst |-> "C", type |-> "accesses", strength |-> 80,
     confidence |-> 80, lastSeen |-> StartHour - 288, iso |-> TRUE]},
   {[src |-> "A", dst |-> "B", type |-> "executes", strength |-> 100,
     confidence |-> 90, lastSeen |-> StartHour - 1, iso |-> FALSE],
    [src |-> "B", dst |-> "C", type |-> "accesses", strength |-> 100,
     confidence |-> 80, lastSeen |-> StartHour - 288, iso |-> FALSE],
    [src |-> "C", dst |-> "A", type |-> "owns", strength |-> 100,
     confidence |-> 80, lastSeen |-> StartHour - 792, iso |-> FALSE]},
   {[src |-> "A", dst |-> "B", type |-> "executes", strength |-> 100,
     confidence |-> 90, lastSeen |-> StartHour - RecentHours, iso |-> FALSE],
    [src |-> "B", dst |-> "C", type |-> "accesses", strength |-> 100,
     confidence |-> 80, lastSeen |-> StartHour - StaleHours, iso |-> FALSE]}}

\* Correlation, background processing of the graph and the passing of time.
DecayNext ==
  \/ \E e \in Events, ents \in EntityLists : CorrelateCall(e, ents)
  \/ \E cleans \in BOOLEAN, decays \in BOOLEAN : BackgroundProcessing(cleans, decays)
  \/ AdvanceClock

DecaySpec == GraphStart(DecayGraphs) /\ [][DecayNext]_vars

\* The values extractPatternValue may find in an event: entity counts and
\* risk scores.
PatternValues == {0, 1, 5, 150}

\* Settings of config.learningRate, in tenths.
LearningRates == {1, 5, 9}

\* A pattern as initializePatterns creates it, under each learning rate and
\* with each value the events to come may carry.
SampledPatterns ==
  {[NoPattern EXCEPT !.learningRate = l, !.value = v] :
     l \in LearningRates, v \in PatternValues}

\* updateEntityBaseline for an event that carries the value of the pattern;
\* the result of an earlier analysis is gone with the call that made it.
UpdatePatternCall ==
  /\ pat' = [UpdatedPattern(pat, pat.value) EXCEPT !.analysis = NoAnalysis]
  /\ UNCHANGED <<now, advances, svc, driver, graphClosing, shutdownCalled,
                 processingQueue, isProcessing, nextId, evTs, evLate, call, stage,
                 cur, loc, baselines, persisted, nodes, rel, cooc, runs, outcome,
                 hist, evMalformed, rulePerf, falsePositivesReduced, edr>>

\* analyzeEntityBehavior for an event in which extractPatternValue finds
\* currentValue; the result is kept as the last analysis of the pattern.
\* analyzeEvent throws when the analytics are not initialized.
AnalyzePatternCall(currentValue) ==
  /\ svc.beh
  /\ pat' = [pat EXCEPT !.analysis = analyzeEntityBehavior(pat, currentValue)]
  /\ UNCHANGED <<now, advances, svc, driver, graphClosing, shutdownCalled,
                 processingQueue, isProcessing, nextId, evTs, evLate, call, stage,
                 cur, loc, baselines, persisted, nodes, rel, cooc, runs, outcome,
                 hist, evMalformed, rulePerf, falsePositivesReduced, edr>>

\* One pattern under events of the same value, analysed against any value.
EmaNext ==
  \/ UpdatePatternCall
  \/ \E v \in PatternValues : AnalyzePatternCall(v)

EmaSpec ==
  Started({AllUp}, {[x \in Entities |-> NoBaseline]}, {{}}, SampledPatterns)
    /\ [][EmaNext]_vars

\* The active rules of the score runs and the replies of the oracle to
\* them: the same reply for every rule, among them matches of confidence 0
\* and below.
ScoreRules == <<"r1", "r2", "r3", "r4">>

ScoreReplies ==
  {[r \in Range(ScoreRules) |-> y] :
     y \in OracleReplies \cup {[kind |-> "json", matches |-> TRUE, confidence |-> c] :
                                 c \in {0 - 50, 0}}}

\* evaluateRules for the event of id e with the active rules ScoreRules; the
\* oracle is consulted only when the LLM service is up.  The result is kept
\* as the locals of e.
EvaluateRulesCall(e) ==
  /\ nextId = e
  /\ e <= MaxEvents
  /\ nextId' = e + 1
  /\ evTs' = [evTs EXCEPT ![e] = now]
  /\ \E replies \in IF svc.llm THEN ScoreReplies
                                 ELSE {[r \in Range(ScoreRules) |->
                                          [kind |-> "throw", matches |-> FALSE,
                                           confidence |-> 0]]} :
       loc' = [loc EXCEPT ![e].rr =
                 [k |-> "ok", res |-> evaluateRulesOf(ScoreRules, e, replies, svc.llm),
                  replies |-> replies, llmUp |-> svc.llm]]
  /\ UNCHANGED <<now, advances, svc, driver, graphClosing, shutdownCalled,
                 processingQueue, isProcessing, evLate, call, stage, cur,
                 baselines, persisted, nodes, rel, cooc, runs, outcome, hist,
                 evMalformed, rulePerf, falsePositivesReduced, pat, edr>>

\* Every score the services emit: the graph engine and the rule evaluation
\* on the events one after the other, the analytics on one pattern.
ScoreNext ==
  \/ \E e \in Events, ents \in EntityLists : CorrelateCall(e, ents)
  \/ \E e \in Events : EvaluateRulesCall(e)
  \/ UpdatePatternCall
  \/ \E v \in PatternValues : AnalyzePatternCall(v)

\* Either the graph engine and the LLM service are up, against a stored
\* graph, or the analytics are, on a pattern.
ScoreInit ==
  \/ Started({[AllUp EXCEPT !.beh = FALSE]}, {[x \in Entities |-> NoBaseline]},
             StoredGraphs, {NoPattern})
  \/ Started({[AllUp EXCEPT !.graph = FALSE, !.llm = FALSE]},
             {[x \in Entities |-> NoBaseline]}, {{}}, SampledPatterns)

ScoreSpec == ScoreInit /\ [][ScoreNext]_vars

\* The contents of activeRules, in the insertion order of the Map: no rule
\* yet (loadActiveRules returns none), and the rules that rule.updated
\* events have added since.
TriggerRuleLists ==
  {<<>>, <<"r1">>, <<"r2">>, <<"r1", "r3">>}

\* Steps 4 and 5 of processEventPipeline for the event of id e with the
\* active rules `rules`: evaluateRules with any reply of the oracle for each
\* rule, then generateRecommendations under if (needsRecommendation).
RuleEvaluation(e, rules) ==
  /\ nextId = e
  /\ e <= MaxEvents
  /\ nextId' = e + 1
  /\ evTs' = [evTs EXCEPT ![e] = now]
  /\ \E replies \in [Range(rules) -> OracleReplies] :
       LET res == evaluateRulesOf(rules, e, replies, svc.llm)
       IN /\ loc' = [loc EXCEPT ![e].rr = [k |-> "ok", res |-> res,
                                            replies |-> replies, llmUp |-> svc.llm]]
          /\ hist' = [hist EXCEPT ![e].evaluated = TRUE,
                                  ![e].recommended = res.needsRecommendation]
  /\ UNCHANGED <<now, advances, svc, driver, graphClosing, shutdownCalled,
                 processingQueue, isProcessing, evLate, call, stage, cur,
                 baselines, persisted, nodes, rel, cooc, runs, outcome,
                 evMalformed, rulePerf, falsePositivesReduced, pat, edr>>

TriggerNext == \E e \in Events, rules \in TriggerRuleLists : RuleEvaluation(e, rules)

\* The rule evaluation of the events one after the other, with the LLM
\* service up or down.
TriggerSpec ==
  /\ Started({AllUp, [AllUp EXCEPT !.llm = FALSE]}, {[x \in Entities |-> NoBaseline]},
             {{}}, {NoPattern})
  /\ [][TriggerNext]_vars

\* Everything of the agent that the connector leaves alone.
AgentUnchanged ==
  UNCHANGED <<now, advances, svc, driver, graphClosing, shutdownCalled,
              processingQueue, isProcessing, nextId, evTs, evLate, call, stage,
              cur, loc, baselines, persisted, nodes, rel, cooc, runs, outcome,
              hist, evMalformed, rulePerf, falsePositivesReduced, pat>>

\* EDRConnector.connect with the answer of testConnection: on success
\* isConnected = true and resetErrorCount; on failure handleError, and the
\* error is thrown to the caller in either case.  The caller connects a
\* connector that is not connected: at startup, and again after a failed
\* connect or after the connector has given up.
EDRconnect(ok) ==
  /\ edr.running
  /\ ~edr.isConnected
  /\ ok \/ edr.errorCount < ErrorCountCap
  /\ edr' = IF ok THEN resetErrorCount([edr EXCEPT !.isConnected = TRUE])
                  ELSE handleError(edr).c
  /\ AgentUnchanged

\* EDRConnector.startListening: throws when not connected, otherwise sets
\* the polling timer.  The caller starts a connector that is not listening
\* yet.
EDRstartListening ==
  /\ edr.running
  /\ edr.isConnected
  /\ ~edr.pollingInterval
  /\ edr' = [edr EXCEPT !.pollingInterval = TRUE]
  /\ AgentUnchanged

\* EDRConnector.stopListening: clears the timer it holds the handle of.
EDRstopListening ==
  /\ edr.running
  /\ edr.pollingInterval
  /\ edr' = [edr EXCEPT !.pollingInterval = FALSE]
  /\ AgentUnchanged

\* EDRConnector.disconnect: clears the timer and marks the connector
\* disconnected.
EDRdisconnect ==
  /\ edr.running
  /\ edr' = [edr EXCEPT !.pollingInterval = FALSE, !.isConnected = FALSE]
  /\ AgentUnchanged

\* A tick of the polling timer: the callback calls pollEvents, which sends
\* GET /events and awaits the answer.
PollTimer ==
  /\ edr.running
  /\ edr.pollingInterval
  /\ edr.pending < MaxInFlight
  /\ edr' = [edr EXCEPT !.pending = @ + 1]
  /\ AgentUnchanged

\* The answer to a poll arrives.  ok: processEvents (which swallows its
\* errors) and resetErrorCount.  Otherwise the catch of pollEvents calls
\* handleError; when that throws, pollEvents rejects, the catch of the timer
\* callback calls handleError again, that throws too and the promise of the
\* callback is rejected with no handler: the process ends or goes on,
\* depending on the unhandled-rejections mode of the runtime (dies).
pollEvents(ok, dies) ==
  /\ edr.running
  /\ edr.pending > 0
  /\ ok \/ edr.errorCount + 2 <= ErrorCountCap
  /\ LET c == [edr EXCEPT !.pending = @ - 1]
         first == handleError(c)
         second == handleError(first.c)
     IN edr' = IF ok THEN resetErrorCount(c)
               ELSE IF ~first.threw THEN first.c
               ELSE [second.c EXCEPT !.running = ~dies]
  /\ AgentUnchanged

ConnectorNext ==
  \/ \E ok \in BOOLEAN : EDRconnect(ok)
  \/ EDRstartListening
  \/ EDRstopListening
  \/ EDRdisconnect
  \/ PollTimer
  \/ \E ok \in BOOLEAN, dies \in BOOLEAN : pollEvents(ok, dies)

\* The connector from its construction on, under any order of the calls of
\* its public methods, timer ticks and answers of the EDR system.
ConnectorSpec == Init /\ [][ConnectorNext]_vars

\* Feedback on rules: the handler is registered by the constructor, so
\* feedback may arrive before and after initialize.
RuleNext ==
  \/ Initialize
  \/ \E x \in Entities, r \in FeedbackRuleIds, fp \in BOOLEAN, st \in BOOLEAN :
       processFeedback(x, r, fp, st)

RuleSpec == Init /\ [][RuleNext]_vars

TypeOK ==
  /\ nextId \in 1..(MaxEvents + 1)
  /\ isProcessing \in BOOLEAN
  /\ Range(processingQueue) \subseteq Events

(***************************************************************************)
(* Properties of the orchestrator pipeline.                                *)
(***************************************************************************)
Running == {"analyze", "correlate", "enrich", "rules", "hung", "recommend", "update"}

PastCorrelation == {"enrich", "rules", "hung", "recommend", "update"}

\* The events folded into the baseline of entity x.
Contributions(x) == IF baselines[x].absent THEN <<>> ELSE baselines[x].contrib

\* C1: score-then-update.  In every run of the pipeline the analysis of
\* event e is complete before updateBaseline(e) is called, and what each
\* entity of e was scored against holds contributions of earlier events
\* only, never that of e: while the run of e is under way no baseline has
\* taken e in.
C1_ScoreThenUpdate ==
  /\ \A l \in Loops : \A x \in Entities :
       loc[l].beh.k = "ok" =>
         /\ cur[l] \notin Range(loc[l].beh.seen[x].c)
         /\ \A j \in Range(loc[l].beh.seen[x].c) : j < cur[l]
  /\ \A l \in Loops :
       stage[l] \in Running =>
         /\ ~hist[cur[l]].updateCalled
         /\ \A x \in Entities : cur[l] \notin Range(Contributions(x))
  /\ \A e \in Events : hist[e].updateCalled => hist[e].analysed

\* An event was scored, then folded into a baseline that already held the
\* contribution of an earlier event.
C1_Witness ==
  \E e \in Events, x \in Entities :
    /\ hist[e].analysed
    /\ hist[e].updateCalled
    /\ Len(Contributions(x)) >= 2
    /\ Contributions(x)[Len(Contributions(x))] = e

\* C2: single consumer.  At most one run of processEventPipeline is in
\* flight at any time, whatever the interleaving of processEvent, shutdown
\* and the callbacks.
C2_SingleConsumer == Cardinality({l \in Loops : stage[l] \in Running}) <= 1

\* C3: exactly once per event.  While no shutdown has been requested every
\* submitted event is run at most once and, until it is run, stays in the
\* queue: nothing, cleanupOldData included, removes it unprocessed.
C3_ExactlyOnce ==
  ~shutdownCalled =>
    \A e \in Events :
      e < nextId =>
        /\ runs[e] <= 1
        /\ runs[e] = 0 => e \in Range(processingQueue)

\* C4: a degraded event still produces a verdict.  A run that has ended,
\* and in which no service was shut down or not yet initialized, has gone
\* through rule evaluation, whichever stage failed.
C4_DegradedVerdict ==
  \A e \in Events :
    (outcome[e] # "none" /\ hist[e].failed # "down") => hist[e].evaluated

\* C5: per-entity causal ordering.  When the analysis of e2 has started,
\* every earlier event e1 that shares an entity X with e2 has had its
\* baseline update for X applied.
C5_CausalOrder ==
  ~shutdownCalled =>
    \A e1 \in Events, e2 \in Events :
      (e1 < e2 /\ hist[e2].analysed /\ hist[e1].failed # "down") =>
        (Range(EventEntities(e1)) \cap Range(EventEntities(e2))) \subseteq hist[e1].applied

\* The oracle call for rule r of an evaluation rr failed: the service was
\* not initialized, the completion threw or its text was not JSON.
OracleFailed(rr, r) == ~rr.llmUp \/ rr.replies[r].kind # "json"

\* falsePositiveRisk (thousandths) as added up from the rules whose oracle
\* call was answered.
RECURSIVE RiskOfAnswered(_, _)
RiskOfAnswered(rr, i) ==
  IF i > Len(Rules) THEN 0
  ELSE LET y == rr.replies[Rules[i]]
           c == Max(0, Min(100, y.confidence))
       IN (IF ~OracleFailed(rr, Rules[i]) /\ y.matches /\ c < 70
             THEN (100 - c) * 3 ELSE 0)
          + RiskOfAnswered(rr, i + 1)

\* C6: an oracle error degrades to a non-match.  A rule whose oracle call
\* failed gets {matches: false, confidence: 0}, is not in matchedRules and
\* adds nothing to falsePositiveRisk; the rules that were answered are
\* evaluated as answered, and the run goes on to the next stage.
C6_OracleErrorIsNonMatch ==
  \A l \in Loops :
    loc[l].rr.k = "ok" =>
      LET rr == loc[l].rr
      IN /\ \A r \in RuleIds :
              OracleFailed(rr, r) =>
                /\ evaluateRule(rr.llmUp, rr.replies[r]) = NonMatch
                /\ r \notin Range(rr.res.matchedRules)
         /\ \A r \in RuleIds :
              (~OracleFailed(rr, r) /\ rr.replies[r].matches)
                => r \in Range(rr.res.matchedRules)
         /\ rr.res.falsePositiveRisk = Min(1000, RiskOfAnswered(rr, 1))
         /\ stage[l] \in {"recommend", "update"}

\* The completion for the first rule threw and the second rule, evaluated
\* after it, matched.
C6_Witness ==
  \E l \in Loops :
    /\ loc[l].rr.k = "ok"
    /\ loc[l].rr.llmUp
    /\ loc[l].rr.replies[Rules[1]].kind = "throw"
    /\ loc[l].rr.replies[Rules[2]].kind = "json"
    /\ loc[l].rr.res.matchedRules = <<Rules[2]>>

\* C7: bounded response under a slow oracle.  A run never stays in an
\* oracle call for ever, and an event waiting in the queue is eventually
\* dequeued and run (unless shutdown empties the queue or the cleanup
\* removes it).
C7_SlowOracleBounded ==
  /\ \A l \in Loops : (stage[l] = "hung") ~> (stage[l] # "hung")
  /\ \A e \in Events :
       (e \in Range(processingQueue)) ~> (runs[e] > 0 \/ shutdownCalled \/ hist[e].removed)

\* C8: enrichment failure is non-fatal.  A run whose enrichEvent call
\* failed still went through rule evaluation and the baseline update.
C8_EnrichmentNonFatal ==
  \A e \in Events :
    (outcome[e] # "none" /\ hist[e].failed = "enrich") =>
      (hist[e].evaluated /\ hist[e].updateCalled)

\* C9: graph failure degrades to an empty correlation.  An entity whose
\* query failed contributes no correlation; when the queries of all the
\* entities of the event failed the result has no correlations, no threat
\* chains and risk 0; the run goes on from correlation with its behavioural
\* result, and rule evaluation, when reached, is carried out.
C9_GraphFailureEmpty ==
  \A l \in Loops :
    loc[l].corr.k = "ok" =>
      LET res == loc[l].corr.res
      IN /\ \A i \in 1..Len(res.correlations) :
              res.correlations[i].sourceEntity \notin loc[l].corr.failed
         /\ loc[l].corr.failed = Range(EventEntities(cur[l])) => res = EmptyCorrelation
         /\ stage[l] \in PastCorrelation
         /\ loc[l].beh.k = "ok"
         /\ stage[l] \in {"recommend", "update"} => loc[l].rr.k = "ok"

\* The graph holds edges, every query of the event failed, and the event
\* was rule-evaluated.
C9_Witness ==
  /\ driver
  /\ rel # {}
  /\ \E l \in Loops :
       /\ loc[l].corr.k = "ok"
       /\ loc[l].corr.failed = Range(EventEntities(cur[l]))
       /\ loc[l].corr.res = EmptyCorrelation
       /\ loc[l].rr.k = "ok"

\* C10: a storage failure never blocks the pipeline.  A run that has ended
\* without a failure of enrichment or of a service that is down, whatever
\* storeBaseline did, has finished and has applied the baseline update to
\* every entity of the event.
C10_StorageNeverBlocks ==
  \A e \in Events :
    (outcome[e] # "none" /\ hist[e].failed \notin {"down", "enrich"}) =>
      /\ outcome[e] = "finished"
      /\ hist[e].applied = Range(EventEntities(e))

\* C11: a malformed event is rejected by processEvent before it is
\* enqueued: it is never queued or run, no baseline is created or updated
\* for it, and no node or edge of the graph is written for it.
C11_MalformedRejected ==
  \A e \in evMalformed :
    /\ e \notin Range(processingQueue)
    /\ runs[e] = 0
    /\ ~hist[e].analysed
    /\ \A x \in Entities : e \notin Range(Contributions(x))
    /\ \A c \in cooc : c.eventId # e

\* C12: once shutdown has been called, an event submitted afterwards is
\* neither enqueued nor run through the pipeline, and neither the baseline
\* store nor the graph is written on its behalf.
C12_NoIntakeAfterShutdown ==
  \A e \in evLate :
    /\ e \notin Range(processingQueue)
    /\ runs[e] = 0
    /\ \A x \in Entities : e \notin Range(Contributions(x))
    /\ \A c \in cooc : c.eventId # e

\* C13: an event whose pipeline run is under way when shutdown is called
\* finishes its remaining stages before the behavioural, graph and
\* knowledge services are shut down: while it is running these services
\* are up, and no stage of it fails because its service is down.
C13_InFlightDrained ==
  \A e \in Events :
    hist[e].atShutdown =>
      /\ e \in InFlight => svc.beh /\ svc.graph /\ svc.kb
      /\ hist[e].failed # "down"

\* The step in which analyzeEvent runs for event e on an initialized
\* service.
AnalyzedNow(e) == ~hist[e].analysed /\ hist'[e].analysed

\* C14: when analyzeEvent meets an entity that has no baseline, it returns
\* zero anomalies for that entity and a baseline of confidence 0.1 with
\* empty patterns is created for it; the missing baseline is never
\* reported as an error (the run goes on to the next stage).
C14_ColdStart ==
  [][\A e \in Events : \A x \in Range(EventEntities(e)) :
       AnalyzedNow(e) /\ baselines[x].absent =>
         /\ outcome'[e] # "aborted"
         /\ \E l \in Loops : /\ cur'[l] = e
                               /\ stage'[l] = "correlate"
                               /\ loc'[l].beh.seen[x] = [k |-> "cold", c |-> <<>>]
         /\ baselines'[x] = [absent |-> FALSE, contrib |-> <<>>,
                             conf |-> InitialConfidence, lastUpdated |-> now]]_vars

\* C15: under updateBaseline the confidence of a baseline never goes
\* down and never exceeds 1.0: an update raises it by 0.01, or leaves it at
\* the cap.
C15_ConfidenceMonotone ==
  [][\A x \in Entities :
       (/\ ~baselines[x].absent
        /\ ~baselines'[x].absent
        /\ baselines'[x].contrib # baselines[x].contrib) =>
         /\ baselines'[x].conf >= baselines[x].conf
         /\ baselines'[x].conf <= ConfidenceCap
         /\ baselines'[x].conf = IF baselines[x].conf = ConfidenceCap
                                   THEN ConfidenceCap
                                   ELSE baselines[x].conf + ConfidenceStep]_vars

\* B went from 0.99 to the cap with one update and stayed there with the
\* next.
C15_Witness ==
  /\ ~baselines["B"].absent
  /\ baselines["B"].conf = ConfidenceCap
  /\ Len(baselines["B"].contrib) = 2
  /\ ~persisted["B"].absent
  /\ persisted["B"].conf = ConfidenceCap - ConfidenceStep

\* C16: a false-positive feedback for an entity that has a baseline lowers
\* the confidence of that baseline by exactly 0.05 when it is at least
\* 0.15 and sets it to the floor 0.1 otherwise; no other field of that
\* baseline and no baseline of another entity changes.
C16_FeedbackLowersConfidence ==
  [][\A x \in Entities, st \in BOOLEAN :
       processFeedback(x, "", TRUE, st) /\ ~baselines[x].absent =>
         /\ baselines'[x].conf =
              IF baselines[x].conf >= ConfidenceFloor + FeedbackDecrement
                THEN baselines[x].conf - FeedbackDecrement
                ELSE ConfidenceFloor
         /\ baselines'[x].absent = baselines[x].absent
         /\ baselines'[x].contrib = baselines[x].contrib
         /\ baselines'[x].lastUpdated = baselines[x].lastUpdated
         /\ \A y \in Entities \ {x} : baselines'[y] = baselines[y]]_vars

\* A baseline of confidence 0.14 was set to the floor by one feedback whose
\* store failed, so that the stored copy still shows where it came from.
C16_Witness ==
  /\ falsePositivesReduced = 1
  /\ \E x \in Entities :
       /\ ~baselines[x].absent
       /\ ~persisted[x].absent
       /\ baselines[x].conf = ConfidenceFloor
       /\ persisted[x].conf = ConfidenceFloor + FeedbackDecrement - ConfidenceStep
       /\ baselines[x].contrib = persisted[x].contrib

\* C17: a feedback that names an active rule increments exactly one
\* counter of that rule (falsePositives on a false positive, truePositives
\* otherwise), after which accuracy and precision both equal
\* truePositives / (truePositives + falsePositives); no other rule changes,
\* and a feedback that names a rule the agent does not hold changes none.
C17_RulePerformance ==
  [][\A x \in Entities, r \in FeedbackRuleIds \ {""}, fp \in BOOLEAN, st \in BOOLEAN :
       processFeedback(x, r, fp, st) =>
         IF r \in RuleIds
           THEN LET p == rulePerf[r]
                    q == rulePerf'[r]
                IN /\ q.truePositives = p.truePositives + (IF fp THEN 0 ELSE 1)
                   /\ q.falsePositives = p.falsePositives + (IF fp THEN 1 ELSE 0)
                   /\ q.accuracy[1] * (q.truePositives + q.falsePositives)
                        = q.truePositives * q.accuracy[2]
                   /\ q.precision = q.accuracy
                   /\ \A o \in RuleIds \ {r} : rulePerf'[o] = rulePerf[o]
           ELSE rulePerf' = rulePerf]_vars

\* r1 was named by one true-positive and two false-positive feedbacks, r2
\* by none.
C17_Witness ==
  /\ rulePerf["r1"].truePositives = 1
  /\ rulePerf["r1"].falsePositives = 2
  /\ rulePerf["r1"].accuracy = <<1, 3>>
  /\ rulePerf["r2"] = NoPerformance

\* The results of the correlateEvent calls made so far.
CorrelationResults ==
  {loc[e].corr.res : e \in {d \in Events : loc[d].corr.k = "ok"}}

\* C18: no threat chain is emitted for a connected component of fewer than
\* 3 entities: every chain of a result has at least 3 distinct entities,
\* and a component of 2 entities is the entity set of no chain.
C18_NoShortChain ==
  \A res \in CorrelationResults :
    /\ \A chain \in Range(res.threatChains) : Cardinality(chain.entities) >= 3
    /\ \A comp \in Range(findConnectedComponents(res.correlations)) :
         Cardinality(comp) < 3 =>
           \A chain \in Range(res.threatChains) : chain.entities # comp

\* A result whose correlations form a component of exactly 2 entities that
\* would score above 0.5, and that has no chain.
C18_Witness ==
  \E res \in CorrelationResults :
    /\ res.threatChains = <<>>
    /\ \E comp \in Range(findConnectedComponents(res.correlations)) :
         /\ Cardinality(comp) = 2
         /\ FLess(<<1, 2>>, analyzeThreatChain(comp, res.correlations).riskScore)

\* The edges of the graph that a list of correlations stands for: an edge
\* found from either of its ends is one edge.
EdgesOf(cs) ==
  {[ends |-> {cs[i].sourceEntity, cs[i].targetEntity}, type |-> cs[i].relationship,
    strength |-> cs[i].strength, confidence |-> cs[i].confidence] : i \in 1..Len(cs)}

RECURSIVE EdgeStrengthSum(_)
EdgeStrengthSum(E) ==
  IF E = {} THEN 0
  ELSE The({g.strength + EdgeStrengthSum(E \ {g}) : g \in {CHOOSE g \in E : TRUE}})

RECURSIVE EdgeConfidenceSum(_)
EdgeConfidenceSum(E) ==
  IF E = {} THEN 0
  ELSE The({g.confidence + EdgeConfidenceSum(E \ {g}) : g \in {CHOOSE g \in E : TRUE}})

\* 0.4 * min(1, |entities| / 10) + 0.4 * avgEdgeStrength
\* + 0.2 * avgEdgeConfidence, the averages taken over the edges inside the
\* chain.
EdgeScore(chain) ==
  LET E == EdgesOf(chain.relationships)
      n == Cardinality(E)
  IN Frac(40 * Min(10, Cardinality(chain.entities)) * n
            + 4 * EdgeStrengthSum(E) + 2 * EdgeConfidenceSum(E),
          1000 * n)

\* C19: a threat chain is emitted only if its risk score, 0.4 * min(1,
\* |entities| / 10) + 0.4 * avgEdgeStrength + 0.2 * avgEdgeConfidence over
\* the internal edges of its component, is strictly greater than 0.5.
C19_EmittedAboveHalf ==
  \A res \in CorrelationResults :
    \A chain \in Range(res.threatChains) :
      /\ FLess(<<1, 2>>, chain.riskScore)
      /\ FLess(<<1, 2>>, EdgeScore(chain))

\* The stored graph of the reference scenario.
ReferenceGraph ==
  {[src |-> "A", dst |-> "B", type |-> "executes", strength |-> 90,
    confidence |-> 90, lastSeen |-> StartHour - 1, iso |-> TRUE],
   [src |-> "B", dst |-> "C", type |-> "accesses", strength |-> 85,
    confidence |-> 80, lastSeen |-> StartHour - 1, iso |-> TRUE]}

\* C20: with the stored in-window edges A-B (executes, 0.9, 0.9) and B-C
\* (accesses, 0.85, 0.8), correlateEvent for an event that references A, B
\* and C, its queries answered, returns exactly one threat chain, with
\* entities {A, B, C}, pattern privilege_escalation and riskScore 0.64.
C20_ReferenceScenario ==
  [][\A e \in Events :
       (/\ rel = ReferenceGraph
        /\ CorrelateCall(e, <<"A", "B", "C">>)
        /\ loc'[e].corr.failed = {}) =>
         LET chains == loc'[e].corr.res.threatChains
         IN /\ Len(chains) = 1
            /\ chains[1].entities = {"A", "B", "C"}
            /\ chains[1].pattern = "privilege_escalation"
            /\ chains[1].riskScore[1] * 100 = 64 * chains[1].riskScore[2]]_vars

\* The first event referenced A, B and C (its co-occurrence edges say so)
\* and its result holds one chain of score 0.64 over the four correlations
\* of the reference graph.
C20_Witness ==
  /\ loc[1].corr.k = "ok"
  /\ Len(loc[1].corr.res.threatChains) = 1
  /\ loc[1].corr.res.threatChains[1].riskScore = <<16, 25>>
  /\ Len(loc[1].corr.res.correlations) = 4
  /\ \E c \in cooc : c.eventId = 1 /\ c.src = "A" /\ c.dst = "C"
  /\ ReferenceGraph \subseteq rel

\* C21: the connected components partition the entities of the event: every
\* entity extracted from the event is in exactly one component returned by
\* findConnectedComponents, an entity without candidate edge being a
\* component of its own, and no entity is in two components.
C21_ComponentsPartition ==
  [][\A e \in Events, ents \in EntityLists :
       CorrelateCall(e, ents) =>
         LET comps == findConnectedComponents(loc'[e].corr.res.correlations)
         IN \A x \in Range(ents) :
              Cardinality({i \in 1..Len(comps) : x \in comps[i]}) = 1]_vars

\* The distinct relationship types of the edges inside a chain.
TypesOf(chain) ==
  {chain.relationships[i].relationship : i \in 1..Len(chain.relationships)}

\* C22: the pattern of a component is decided first match wins over the set
\* T of the distinct relationship types of its internal edges:
\* lateral_movement iff T has communicates_with and accesses; else
\* privilege_escalation iff it has executes and accesses; else
\* command_and_control iff it has communicates_with and more than 2 types;
\* else data_exfiltration iff it has accesses and more than 3 types; else
\* suspicious_activity.
C22_PatternTable ==
  \A res \in CorrelationResults :
    \A chain \in Range(res.threatChains) :
      LET T == TypesOf(chain)
          cw == "communicates_with" \in T
          ac == "accesses" \in T
          ex == "executes" \in T
          n == Cardinality(T)
      IN /\ chain.pattern = "lateral_movement" <=> (cw /\ ac)
         /\ chain.pattern = "privilege_escalation" <=> (~cw /\ ex /\ ac)
         /\ chain.pattern = "command_and_control" <=> (cw /\ ~ac /\ n > 2)
         /\ chain.pattern = "data_exfiltration" <=> (~cw /\ ~ex /\ ac /\ n > 3)
         /\ chain.pattern = "suspicious_activity" <=>
              ~(\/ cw /\ ac
                \/ ex /\ ac
                \/ cw /\ n > 2
                \/ ac /\ n > 3)

\* A chain has been returned whose types meet the first and the second test
\* at once, and it is a lateral_movement.
C22_Witness ==
  LET chains == UNION {Range(res.threatChains) : res \in CorrelationResults}
  IN \E c \in chains :
       /\ c.pattern = "lateral_movement"
       /\ {"communicates_with", "accesses", "executes"} \subseteq TypesOf(c)

\* Updated within the last 30 days.
Recent(b) == ~b.absent /\ b.lastUpdated >= now - BaselineRetentionHours

Distance(mean, v) ==
  LET n == v * mean[2] - mean[1] IN Frac(IF n < 0 THEN 0 - n ELSE n, mean[2])

\* C29: under events of the same pattern value v the distance |v - meanEMA|
\* never grows, shrinks strictly with every event as long as it is not 0,
\* and the mean never steps over v.
C29_EmaConverges ==
  [][UpdatePatternCall =>
       LET v == pat.value
           before == Distance(pat.frequency, v)
           after == Distance(pat'.frequency, v)
       IN /\ ~FLess(before, after)
          /\ before[1] # 0 => FLess(after, before)
          /\ FLess(pat.frequency, <<v, 1>>) => ~FLess(<<v, 1>>, pat'.frequency)
          /\ FLess(<<v, 1>>, pat.frequency) => ~FLess(pat'.frequency, <<v, 1>>)]_vars

\* C30: a pattern is reported as an anomaly exactly when its variance is
\* above 0 and |current - mean| / variance is above anomalyThreshold; a
\* pattern of variance 0 is never reported.
C30_AnomalyDecision ==
  [][\A v \in PatternValues :
       AnalyzePatternCall(v) =>
         LET reported == pat'.analysis.anomalies # <<>>
         IN /\ reported <=>
                 /\ pat.variance[1] > 0
                 /\ FLess(Round(anomalyThreshold),
                          Over(AbsDiff(<<v, 1>>, pat.frequency), pat.variance))
            /\ pat.variance[1] = 0 => ~reported]_vars

\* The last analysis is the one of the pattern as it is now, the variance
\* is above 0 and an anomaly was reported.
C30_Witness ==
  /\ pat.analysis.done
  /\ pat.analysis = analyzeEntityBehavior(pat, pat.analysis.current)
  /\ pat.variance[1] > 0
  /\ pat.analysis.anomalies # <<>>

\* A fraction in [0, 1].
UnitFraction(q) == q[2] > 0 /\ q[1] >= 0 /\ q[1] <= q[2]

\* C23: every emitted score is in [0, 1]: severity and confidence of an
\* anomaly, riskScore and confidence of the behavioural result, the
\* riskScore of every chain, riskScore and networkStrength of the
\* correlation result, the confidence of the oracle and falsePositiveRisk.
C23_ScoresInUnitInterval ==
  /\ UnitFraction(pat.analysis.severity)
  /\ UnitFraction(pat.analysis.confidence)
  /\ UnitFraction(pat.analysis.riskScore)
  /\ UnitFraction(pat.analysis.entityConfidence)
  /\ \A a \in Range(pat.analysis.anomalies) :
       UnitFraction(a.severity) /\ UnitFraction(a.confidence)
  /\ \A e \in Events :
       /\ UnitFraction(loc[e].corr.res.riskScore)
       /\ UnitFraction(loc[e].corr.res.networkStrength)
       /\ \A chain \in Range(loc[e].corr.res.threatChains) :
            UnitFraction(chain.riskScore)
       /\ loc[e].rr.res.falsePositiveRisk \in 0..1000
       /\ \A r \in DOMAIN loc[e].rr.replies :
            evaluateRule(loc[e].rr.llmUp, loc[e].rr.replies[r]).confidence \in 0..100

\* Four rules matched with confidence 0: the sum of their risks, 1.2, was
\* cut to 1.
C23_Witness ==
  \E e \in Events :
    /\ loc[e].rr.k = "ok"
    /\ Len(loc[e].rr.res.matchedRules) = Len(ScoreRules)
    /\ \A r \in DOMAIN loc[e].rr.replies :
         evaluateRule(loc[e].rr.llmUp, loc[e].rr.replies[r]).confidence = 0
    /\ loc[e].rr.res.falsePositiveRisk = 1000

\* The correlation c reports the edge r.
Reports(c, r) ==
  /\ {c.sourceEntity, c.targetEntity} = {r.src, r.dst}
  /\ c.relationship = r.type
  /\ c.strength = r.strength
  /\ c.confidence = r.confidence
  /\ c.lastSeen = r.lastSeen

\* C25: every correlation returned by correlateEvent reports an edge of the
\* store that touches an entity of the event, was last seen no earlier than
\* the event timestamp minus correlationWindow, and has a strength of at
\* least minCorrelationStrength; an edge of the store below the threshold
\* or last seen before the window is reported by no returned correlation.
C25_CandidateFilter ==
  [][\A e \in Events, ents \in EntityLists :
       CorrelateCall(e, ents) =>
         LET cs == loc'[e].corr.res.correlations
             cutoff == evTs'[e] - correlationWindow
         IN /\ \A c \in Range(cs) :
                 /\ c.sourceEntity \in Range(ents) \/ c.targetEntity \in Range(ents)
                 /\ c.lastSeen >= cutoff
                 /\ c.strength >= minCorrelationStrength
                 /\ \E r \in rel : Reports(c, r)
            /\ \A r \in rel :
                 (r.strength < minCorrelationStrength \/ r.lastSeen < cutoff) =>
                   \A c \in Range(cs) : ~Reports(c, r)]_vars

\* An event whose correlations were returned for an entity that also has, in
\* the store, a recent edge below the threshold and a strong edge last seen
\* before the window.
C25_Witness ==
  \E e \in Events :
    /\ loc[e].corr.k = "ok"
    /\ \E c \in Range(loc[e].corr.res.correlations), weak \in rel, old \in rel :
         /\ c.sourceEntity \in {weak.src, weak.dst}
         /\ weak.strength < minCorrelationStrength
         /\ weak.lastSeen >= evTs[e] - correlationWindow
         /\ old.strength >= minCorrelationStrength
         /\ old.lastSeen < evTs[e] - correlationWindow
         /\ \E d \in Range(loc[e].corr.res.correlations) :
              d.sourceEntity \in {old.src, old.dst}

\* C26: when correlateEvent(e) returns, the graph holds a node for every
\* entity of e and, for every pair of distinct entities of e, a co-occurrence
\* edge with strength 0.5 and confidence 0.8 tagged with the id of e.
C26_GraphUpdatedOnReturn ==
  [][\A e \in Events, ents \in EntityLists :
       CorrelateCall(e, ents) =>
         /\ Range(ents) \subseteq nodes'
         /\ \A x \in Range(ents), y \in Range(ents) :
              x # y =>
                \E c \in cooc' :
                  /\ {c.src, c.dst} = {x, y}
                  /\ c.eventId = e
                  /\ c.strength = CoOccurStrength
                  /\ c.confidence = CoOccurConfidence]_vars

\* The lists s and t hold the same elements the same number of times.
SameBag(s, t) ==
  /\ Len(s) = Len(t)
  /\ \A x \in Range(s) \cup Range(t) :
       Cardinality({i \in 1..Len(s) : s[i] = x})
         = Cardinality({i \in 1..Len(t) : t[i] = x})

\* The chains a and b are the same up to the order of their relationships.
SameChain(a, b) ==
  /\ a.entities = b.entities
  /\ a.pattern = b.pattern
  /\ a.riskScore = b.riskScore
  /\ SameBag(a.relationships, b.relationships)

BucketFactor(age) ==
  IF age <= RecentHours THEN RecentFactor
  ELSE IF age <= StaleHours THEN StaleFactor
  ELSE OldFactor

\* C27: a decay pass multiplies the strength of every edge by 1.0 if its
\* lastSeen is at most 7 days old, by 0.8 if at most 30 days old, and by 0.5
\* otherwise; the strength does not increase, stays in [0, 1], and that of
\* an edge seen within the last 7 days stays as it is.
C27_DecayBuckets ==
  [][\A cleans \in BOOLEAN :
       BackgroundProcessing(cleans, TRUE) =>
         \A r \in IF cleans THEN cleanupOldRelationships(rel, now) ELSE rel :
           \E d \in rel' :
             /\ d = [r EXCEPT !.strength = d.strength]
             /\ 10 * d.strength = r.strength * BucketFactor(now - r.lastSeen)
             /\ d.strength <= r.strength
             /\ d.strength \in 0..100
             /\ now - r.lastSeen <= RecentHours => d.strength = r.strength]_vars

\* C32: the correlations returned by correlateEvent are in descending order
\* of strength over the whole list.
C32_SortedByStrength ==
  \A e \in Events :
    loc[e].corr.k = "ok" =>
      LET cs == loc[e].corr.res.correlations
      IN \A i \in 1..Len(cs), j \in 1..Len(cs) :
           i < j => cs[i].strength >= cs[j].strength

\* The stored edges that a correlation cannot tell from r: same ends in
\* either direction, same type, strength, confidence and lastSeen.
Twins(r, R) ==
  {q \in R : /\ {q.src, q.dst} = {r.src, r.dst}
              /\ q.type = r.type
              /\ q.strength = r.strength
              /\ q.confidence = r.confidence
              /\ q.lastSeen = r.lastSeen}

\* C37: a stored edge appears at most once in the correlations of one
\* correlateEvent result, also when both of its ends are entities of the
\* event.
C37_EdgeReportedOnce ==
  [][\A e \in Events, ents \in EntityLists :
       CorrelateCall(e, ents) =>
         LET cs == loc'[e].corr.res.correlations
         IN \A r \in rel :
              Cardinality({i \in 1..Len(cs) : Reports(cs[i], r)})
                <= Cardinality(Twins(r, rel))]_vars

\* C39: when two entities without stored edge between them have appeared
\* together in an earlier event, correlateEvent for a later event that
\* references one of them, with a timestamp within correlationWindow of the
\* earlier one and its queries answered, returns a correlation between the
\* two.
C39_CoOccurrenceCorrelates ==
  [][\A e \in Events, ents \in EntityLists :
       (CorrelateCall(e, ents) /\ loc'[e].corr.failed = {}) =>
         \A c \in cooc :
           (/\ c.eventId < e
            /\ {c.src, c.dst} \cap Range(ents) # {}
            /\ c.timestamp >= evTs'[e] - correlationWindow
            /\ \A r \in rel : {r.src, r.dst} # {c.src, c.dst}) =>
             \E k \in Range(loc'[e].corr.res.correlations) :
               {k.sourceEntity, k.targetEntity} = {c.src, c.dst}]_vars

\* C40: under lazy creation, updateBaseline and processFeedback every
\* baseline of the in-memory map has a confidence in [0.1, 1.0]; the map has
\* one slot per entity id.
C40_ConfidenceInRange ==
  /\ DOMAIN baselines = Entities
  /\ \A x \in Entities :
       ~baselines[x].absent =>
         /\ baselines[x].conf >= ConfidenceFloor
         /\ baselines[x].conf <= ConfidenceCap

\* One baseline that has taken in an event is at the floor after a feedback,
\* while another that has taken in an event is at the cap.
C40_Witness ==
  /\ falsePositivesReduced >= 1
  /\ \E x \in Entities, y \in Entities :
       /\ ~baselines[x].absent
       /\ baselines[x].conf = ConfidenceFloor
       /\ baselines[x].contrib # <<>>
       /\ ~baselines[y].absent
       /\ baselines[y].conf = ConfidenceCap
       /\ baselines[y].contrib # <<>>

\* An event that references x is in some stage of its pipeline.
Referenced(x) ==
  \E l \in Loops : stage[l] # "idle" /\ x \in Range(EventEntities(cur[l]))

\* C38: a false-positive feedback for an entity handled while an event that
\* references it is in its pipeline lowers the confidence the in-memory
\* baseline has at that moment (floor 0.1) and leaves the rest of it alone,
\* and the update of the pipeline raises the confidence the baseline has at
\* that moment (cap 1.0) and appends the event: each works on what the other
\* has left.
C38_NoLostUpdate ==
  [][/\ \A x \in Entities, st \in BOOLEAN :
          (/\ processFeedback(x, "", TRUE, st)
           /\ Referenced(x)
           /\ ~baselines[x].absent) =>
            baselines'[x] =
              [baselines[x] EXCEPT !.conf = Max(ConfidenceFloor, @ - FeedbackDecrement)]
     /\ \A l \in Loops :
          Update(l) =>
            \A x \in hist'[cur[l]].applied :
              /\ baselines'[x].conf =
                   Min(ConfidenceCap,
                       (IF baselines[x].absent THEN InitialConfidence
                                               ELSE baselines[x].conf) + ConfidenceStep)
              /\ baselines'[x].contrib =
                   Append(IF baselines[x].absent THEN <<>> ELSE baselines[x].contrib,
                          cur[l])]_vars

\* An event is about to be folded into the baseline of one of its entities,
\* which a feedback whose store failed has set to the floor from 0.14.
C38_Witness ==
  /\ falsePositivesReduced = 1
  /\ \E l \in Loops, x \in Entities :
       /\ stage[l] = "update"
       /\ x \in Range(EventEntities(cur[l]))
       /\ ~baselines[x].absent
       /\ ~persisted[x].absent
       /\ baselines[x].conf = ConfidenceFloor
       /\ persisted[x].conf = ConfidenceFloor + FeedbackDecrement - ConfidenceStep

\* C36: with the services up and no shutdown requested, once processEvent(e)
\* has returned, e is no longer in the queue, has been analysed and its
\* pipeline run has ended.
C36_ReturnsAfterOwnPipeline ==
  (Initialized /\ ~shutdownCalled) =>
    \A e \in Events :
      call[e] = "returned" =>
        /\ e \notin Range(processingQueue)
        /\ hist[e].analysed
        /\ outcome[e] # "none"

\* C35: whenever the queue is not empty a consumer loop is running, and an
\* event leaves the queue only by being picked up by a running loop, which
\* starts its pipeline.
C35_NoStrandedEvents ==
  [][/\ processingQueue' # <<>> => \E l \in Loops : stage'[l] # "idle"
     /\ \A e \in Events :
          (e \in Range(processingQueue) /\ e \notin Range(processingQueue')) =>
            \E l \in Loops : /\ stage[l] # "idle"
                              /\ cur'[l] = e
                              /\ stage'[l] = "analyze"]_vars

\* C31: for an event, needsRecommendation is true and the recommendation
\* generator is called exactly when the oracle returned a result of
\* confidence above 0.8 and no active rule is similar to the event; the
\* generator is never called when needsRecommendation is false.
C31_RecommendationTrigger ==
  [][\A e \in Events, rules \in TriggerRuleLists :
       RuleEvaluation(e, rules) =>
         LET rr == loc'[e].rr
             confident == \E r \in Range(rules) :
                            evaluateRule(rr.llmUp, rr.replies[r]).confidence > 80
             similar == \E r \in Range(rules) : hasSimilarRule(r, e)
         IN /\ rr.res.needsRecommendation <=> (confident /\ ~similar)
            /\ hist'[e].recommended <=> rr.res.needsRecommendation]_vars

\* The half of C31 that the code keeps: the generator is called exactly
\* when needsRecommendation is true, and then a rule that is not similar to
\* the event matched it with a confidence above 0.8.
RecommendationOnlyWhenNeeded ==
  [][\A e \in Events, rules \in TriggerRuleLists :
       RuleEvaluation(e, rules) =>
         LET rr == loc'[e].rr
         IN /\ hist'[e].recommended <=> rr.res.needsRecommendation
            /\ rr.res.needsRecommendation <=>
                 \E r \in Range(rules) :
                   LET m == evaluateRule(rr.llmUp, rr.replies[r])
                   IN m.matches /\ m.confidence > 80 /\ ~hasSimilarRule(r, e)]_vars

\* C33: errorCount never exceeds maxRetries; a failed connect or poll raises
\* errorCount by one; the connector is marked disconnected by a failure
\* exactly when errorCount reaches maxRetries; a successful poll or connect
\* resets errorCount to 0.
C33_RetryBound ==
  [][/\ edr'.errorCount <= maxRetries
     /\ \A ok \in BOOLEAN :
          (EDRconnect(ok) \/ \E dies \in BOOLEAN : pollEvents(ok, dies)) =>
            IF ok THEN edr'.errorCount = 0
            ELSE /\ edr'.errorCount = edr.errorCount + 1
                 /\ edr'.isConnected =
                      (edr.isConnected /\ edr'.errorCount # maxRetries)]_vars

\* The part of C33 that the code keeps: a success resets errorCount to 0,
\* and a connector with errorCount at maxRetries or above is disconnected
\* unless a connect has succeeded since.
ResetAndGiveUp ==
  [][/\ \A ok \in BOOLEAN :
          (EDRconnect(ok) \/ \E dies \in BOOLEAN : pollEvents(ok, dies)) =>
            IF ok THEN edr'.errorCount = 0
            ELSE edr'.errorCount >= maxRetries => ~edr'.isConnected
     /\ edr'.errorCount >= maxRetries => ~edr'.isConnected]_vars

\* One clause of C33 on its own: a failed poll raises errorCount by one.
PollFailureCountedOnce ==
  [][\A dies \in BOOLEAN :
       pollEvents(FALSE, dies) => edr'.errorCount = edr.errorCount + 1]_vars

\* C34: a poll request is sent only while isConnected is true: once the
\* connector has given up, none is sent until connect succeeds again.
C34_NoPollAfterGiveUp ==
  [][PollTimer => edr.isConnected]_vars

====
